---------------------------- MODULE Spec2Model ----------------------------
(***************************************************************************)
(* A model of the path tracer raytracing-weekend-rust: the f32/Vec3        *)
(* algebra, the Sphere / MovingSphere intersection tests, the AABB slab    *)
(* test, BVH construction and traversal, the brute-force hit_list, the     *)
(* recursive integrator ray_color and the row-parallel render driver.      *)
(*                                                                         *)
(* Numbers.  An f32 is modelled as a pair <<n, d>>:                        *)
(*   d > 0, n # 0, gcd(|n|, d) = 1   the finite non-zero value n / d       *)
(*   <<0, 1>>, <<0, -1>>             +0.0 and -0.0                         *)
(*   <<1, 0>>, <<-1, 0>>             +infinity and -infinity               *)
(*   <<0, 0>>                        NaN                                   *)
(* The operators follow IEEE-754 for the special values (signed zeros,     *)
(* infinities, NaN, comparisons with NaN being false).  +, -, *, / are     *)
(* exact on finite values (f32 rounding is not modelled); sqrt is exact    *)
(* when the root is rational and otherwise rounded down to a multiple of   *)
(* 1 / SqrtScale.                                                          *)
(***************************************************************************)
EXTENDS Integers, Sequences, FiniteSets, TLC

(***************************************************************************)
(* f32                                                                     *)
(***************************************************************************)
SqrtBits == 6

SqrtScale == 2 ^ SqrtBits

\* With(v, F) is F(v), and With2(u, v, F) is F(u, v), with the arguments
\* evaluated once: TLC evaluates the argument of an operator at each use of
\* the parameter, and the value of a bound variable once.
With(v, F(_)) == CHOOSE r \in {F(a) : a \in {v}} : TRUE

With2(u, v, F(_, _)) == CHOOSE r \in {F(a, b) : a \in {u}, b \in {v}} : TRUE

Abs(n) == IF n < 0 THEN -n ELSE n

RECURSIVE Gcd(_, _)
Gcd(a0, b0) ==
    With2(a0, b0, LAMBDA a, b : IF b = 0 THEN a ELSE Gcd(b, a % b))

\* The canonical pair of the finite value n / d (d # 0).
Norm(n0, d0) ==
    With2(n0, d0, LAMBDA n, d :
        IF n = 0 THEN <<0, 1>>
        ELSE With(Gcd(Abs(n), Abs(d)), LAMBDA g :
                 IF d < 0 THEN <<-(n \div g), -(d \div g)>>
                 ELSE <<n \div g, d \div g>>))

NaN == <<0, 0>>

INFINITY == <<1, 0>>

NegInf == <<-1, 0>>

Zero == <<0, 1>>

NegZero == <<0, -1>>

One == <<1, 1>>

Int2F(k) == <<k, 1>>

IsNaN(x) == x = NaN

IsInf(x) == x[2] = 0 /\ x[1] # 0

IsZero(x) == x[1] = 0 /\ x[2] # 0

\* The sign bit as +1 / -1.
FSign(x) ==
    IF x[2] = 0 THEN (IF x[1] < 0 THEN -1 ELSE 1)
    ELSE IF x[1] = 0 THEN x[2]
    ELSE IF x[1] < 0 THEN -1 ELSE 1

\* Denominator of a finite value, with the sign of a zero taken off.
Den(x) == IF x[1] = 0 THEN 1 ELSE x[2]

FNeg(x0) ==
    With(x0, LAMBDA x :
        IF IsNaN(x) THEN NaN
        ELSE IF x[2] = 0 THEN <<-x[1], 0>>
        ELSE IF x[1] = 0 THEN <<0, -x[2]>>
        ELSE <<-x[1], x[2]>>)

FAdd(x0, y0) ==
    With2(x0, y0, LAMBDA x, y :
        IF IsNaN(x) \/ IsNaN(y) THEN NaN
        ELSE IF IsInf(x) /\ IsInf(y) THEN (IF x = y THEN x ELSE NaN)
        ELSE IF IsInf(x) THEN x
        ELSE IF IsInf(y) THEN y
        ELSE IF IsZero(x) /\ IsZero(y)
             THEN (IF x = NegZero /\ y = NegZero THEN NegZero ELSE Zero)
        ELSE IF IsZero(x) THEN y
        ELSE IF IsZero(y) THEN x
        ELSE LET g == Gcd(x[2], y[2])
                 n == x[1] * (y[2] \div g) + y[1] * (x[2] \div g)
             IN  Norm(n, (x[2] \div g) * y[2]))

FSub(x, y) == FAdd(x, FNeg(y))

FMul(x0, y0) ==
    With2(x0, y0, LAMBDA x, y :
        IF IsNaN(x) \/ IsNaN(y) THEN NaN
        ELSE LET s == FSign(x) * FSign(y) IN
             IF (IsInf(x) /\ IsZero(y)) \/ (IsZero(x) /\ IsInf(y)) THEN NaN
             ELSE IF IsInf(x) \/ IsInf(y) THEN <<s, 0>>
             ELSE IF IsZero(x) \/ IsZero(y) THEN <<0, s>>
             ELSE LET g1 == Gcd(Abs(x[1]), y[2])
                      g2 == Gcd(Abs(y[1]), x[2])
                  IN  Norm((x[1] \div g1) * (y[1] \div g2),
                           (x[2] \div g2) * (y[2] \div g1)))

FDiv(x0, y0) ==
    With2(x0, y0, LAMBDA x, y :
        IF IsNaN(x) \/ IsNaN(y) THEN NaN
        ELSE LET s == FSign(x) * FSign(y) IN
             IF (IsInf(x) /\ IsInf(y)) \/ (IsZero(x) /\ IsZero(y)) THEN NaN
             ELSE IF IsInf(x) THEN <<s, 0>>
             ELSE IF IsInf(y) THEN <<0, s>>
             ELSE IF IsZero(y) THEN <<s, 0>>
             ELSE IF IsZero(x) THEN <<0, s>>
             ELSE FMul(x, <<FSign(y) * y[2], Abs(y[1])>>))

\* x < y; false when either is NaN; -0.0 and +0.0 compare equal.
FLt(x0, y0) ==
    With2(x0, y0, LAMBDA x, y :
        /\ ~IsNaN(x)
        /\ ~IsNaN(y)
        /\ IF IsInf(x) \/ IsInf(y)
           THEN (x = NegInf /\ y # NegInf) \/ (y = INFINITY /\ x # INFINITY)
           ELSE x[1] * Den(y) < y[1] * Den(x))

FGt(x, y) == FLt(y, x)

FLe(x0, y0) ==
    With2(x0, y0, LAMBDA x, y :
        ~IsNaN(x) /\ ~IsNaN(y) /\ ~FLt(y, x))

\* x == y of f32.
FEq(x0, y0) ==
    With2(x0, y0, LAMBDA x, y :
        ~IsNaN(x) /\ ~IsNaN(y) /\ ~FLt(x, y) /\ ~FLt(y, x))

\* f32::min, f32::max: a NaN operand yields the other operand.
FMin(x0, y0) ==
    With2(x0, y0, LAMBDA x, y :
        IF IsNaN(x) THEN y ELSE IF IsNaN(y) THEN x
              ELSE IF FLt(y, x) THEN y ELSE x)

FMax(x0, y0) ==
    With2(x0, y0, LAMBDA x, y :
        IF IsNaN(x) THEN y ELSE IF IsNaN(y) THEN x
              ELSE IF FLt(x, y) THEN y ELSE x)

RECURSIVE ISqrt(_)
ISqrt(n) ==
    IF n < 2 THEN n
    ELSE With(2 * ISqrt(n \div 4), LAMBDA s :
             IF (s + 1) * (s + 1) <= n THEN s + 1 ELSE s)

IsSquare(n) == With(ISqrt(n), LAMBDA s : s * s = n)

\* f32::sqrt.
FSqrt(x0) ==
    With(x0, LAMBDA x :
        IF IsNaN(x) THEN NaN
        ELSE IF IsZero(x) THEN x
        ELSE IF FSign(x) < 0 THEN NaN
        ELSE IF IsInf(x) THEN x
        ELSE IF IsSquare(x[1]) /\ IsSquare(x[2]) THEN <<ISqrt(x[1]), ISqrt(x[2])>>
        ELSE Norm(ISqrt((x[1] * SqrtScale * SqrtScale) \div x[2]), SqrtScale))

(***************************************************************************)
(* Vec3: a triple <<x, y, z>> of f32; v[a + 1] is the code's v[a].         *)
(***************************************************************************)
Vec3(x, y, z) == <<x, y, z>>

\* A panic: the call does not return.  A panic inside a callee unwinds
\* through every caller, so a value computed from Panicked is Panicked.
Panicked == [kind |-> "panic"]

\* Index<usize> for Vec3 (not_simd): v[a]
VIndex(v, a) == IF a \in 0 .. 2 THEN v[a + 1] ELSE Panicked

\* IndexMut<usize> for Vec3 (not_simd): v[a] = x, as the vector afterwards
VIndexMut(v, a, x) ==
    IF a \in 0 .. 2 THEN [v EXCEPT ![a + 1] = x] ELSE Panicked

\* The SIMD Vec3: the f32x4 `val`, with 0.0 in the fourth lane.  Vec3::new
simd_new(x, y, z) == <<x, y, z, Zero>>

\* Index<usize> for Simd<f32, 4>: the lanes indexed as the array [f32; 4]
Simd_index(val, a) == IF a \in 0 .. 3 THEN val[a + 1] ELSE Panicked

\* Index<usize> for Vec3 (simd): &self.val[index]
simd_index(val, a) == Simd_index(val, a)

\* IndexMut<usize> for Vec3 (simd): &mut self.val[index], then the store
simd_index_mut(val, a, x) ==
    IF Simd_index(val, a) = Panicked THEN Panicked
    ELSE [val EXCEPT ![a + 1] = x]

VAdd(u0, v0) ==
    With2(u0, v0, LAMBDA u, v :
        <<FAdd(u[1], v[1]), FAdd(u[2], v[2]), FAdd(u[3], v[3])>>)

VSub(u0, v0) ==
    With2(u0, v0, LAMBDA u, v :
        <<FSub(u[1], v[1]), FSub(u[2], v[2]), FSub(u[3], v[3])>>)

VNeg(v0) ==
    With(v0, LAMBDA v :
        <<FNeg(v[1]), FNeg(v[2]), FNeg(v[3])>>)

\* f32 * Vec3
VScale(k0, v0) ==
    With2(k0, v0, LAMBDA k, v :
        <<FMul(k, v[1]), FMul(k, v[2]), FMul(k, v[3])>>)

\* Vec3 / f32
VDiv(v0, k0) ==
    With2(v0, k0, LAMBDA v, k :
        <<FDiv(v[1], k), FDiv(v[2], k), FDiv(v[3], k)>>)

Dot(u0, v0) ==
    With2(u0, v0, LAMBDA u, v :
        FAdd(FAdd(FMul(u[1], v[1]), FMul(u[2], v[2])), FMul(u[3], v[3])))

LengthSquared(v0) ==
    With(v0, LAMBDA v :
        FAdd(FAdd(FMul(v[1], v[1]), FMul(v[2], v[2])), FMul(v[3], v[3])))

(***************************************************************************)
(* Ray, HitRecord, Option                                                  *)
(***************************************************************************)
None == [some |-> FALSE]

Some(v) == [some |-> TRUE, val |-> v]

Ray(orig, dir, time) == [orig |-> orig, dir |-> dir, time |-> time]

\* Ray::at
at(r, t) == VAdd(r.orig, VScale(t, r.dir))

(***************************************************************************)
(* AABB                                                                    *)
(***************************************************************************)
AABB(minimum, maximum) == [minimum |-> minimum, maximum |-> maximum]

\* A box from the first box's minimum to the second box's maximum
surrounding_box_ends(box00, box10) == AABB(box00.minimum, box10.maximum)

\* A box that is the first box alone
surrounding_box_first(box00, box10) == box00

surrounding_box(box00, box10) ==
    With2(box00, box10, LAMBDA box0, box1 :
        LET small == Vec3(FMin(box0.minimum[1], box1.minimum[1]),
                          FMin(box0.minimum[2], box1.minimum[2]),
                          FMin(box0.minimum[3], box1.minimum[3]))
            big   == Vec3(FMax(box0.maximum[1], box1.maximum[1]),
                          FMax(box0.maximum[2], box1.maximum[2]),
                          FMax(box0.maximum[3], box1.maximum[3]))
        IN  AABB(small, big))

\* A loop body that never swaps t0 and t1
AABB_axis_unswapped(box, ray, t_min, t_max, a) ==
    LET inv_d == FDiv(One, VIndex(ray.dir, a))
        t0    == FMul(FSub(VIndex(box.minimum, a), VIndex(ray.orig, a)), inv_d)
        t1    == FMul(FSub(VIndex(box.maximum, a), VIndex(ray.orig, a)), inv_d)
    IN  [t0 |-> t0, t1 |-> t1,
         t_min_p |-> IF FGt(t0, t_min) THEN t0 ELSE t_min,
         t_max_p |-> IF FLt(t1, t_max) THEN t1 ELSE t_max]

\* One pass of the loop body of AABB::hit for axis a: the slab interval
\* [t0, t1] after the swap, and the two clamped ends t_min_p, t_max_p.
AABB_axis(box, ray, t_min, t_max, a) ==
    With(FDiv(One, VIndex(ray.dir, a)), LAMBDA inv_d :
    With2(FMul(FSub(VIndex(box.minimum, a), VIndex(ray.orig, a)), inv_d),
          FMul(FSub(VIndex(box.maximum, a), VIndex(ray.orig, a)), inv_d),
          LAMBDA u0, u1 :
    With2(IF FLt(inv_d, Zero) THEN u1 ELSE u0,
          IF FLt(inv_d, Zero) THEN u0 ELSE u1,
          LAMBDA t0, t1 :
        [t0 |-> t0, t1 |-> t1,
         t_min_p |-> IF FGt(t0, t_min) THEN t0 ELSE t_min,
         t_max_p |-> IF FLt(t1, t_max) THEN t1 ELSE t_max])))

\* The loop of AABB::hit from axis a on: returns false at the first axis
\* whose clamped interval is empty.  t_min and t_max are the parameters,
\* which the loop never assigns.
RECURSIVE AABB_hit_from(_, _, _, _, _)
AABB_hit_from(box, ray, t_min, t_max, a) ==
    IF a = 3 THEN TRUE
    ELSE With(AABB_axis(box, ray, t_min, t_max, a), LAMBDA ax :
             IF FLe(ax.t_max_p, ax.t_min_p) THEN FALSE
             ELSE AABB_hit_from(box, ray, t_min, t_max, a + 1))

AABB_hit(box, ray, t_min, t_max) == AABB_hit_from(box, ray, t_min, t_max, 0)

(***************************************************************************)
(* Sphere and MovingSphere                                                 *)
(***************************************************************************)
Sphere(center, radius, material) ==
    [kind |-> "Sphere", center |-> center, radius |-> radius,
     material |-> material]

MovingSphere(center0, center1, time0, time1, radius, material) ==
    [kind |-> "MovingSphere", center0 |-> center0, center1 |-> center1,
     time0 |-> time0, time1 |-> time1, radius |-> radius,
     material |-> material]

\* Roots computed as if the direction had length 1
Roots_unit_direction(center, radius, r) ==
    LET oc           == VSub(r.orig, center)
        half_b       == Dot(oc, r.dir)
        c            == FSub(LengthSquared(oc), FMul(radius, radius))
        discriminant == FSub(FMul(half_b, half_b), c)
    IN  IF FLt(discriminant, Zero) THEN None
        ELSE LET sqrtd == FSqrt(discriminant)
             IN  Some(<<FSub(FNeg(half_b), sqrtd), FAdd(FNeg(half_b), sqrtd)>>)

\* The two roots of the quadratic, smaller first, or None when the
\* discriminant is negative.
Roots(center, radius, r) ==
    With(VSub(r.orig, center), LAMBDA oc :
    With2(LengthSquared(r.dir), Dot(oc, r.dir), LAMBDA a, half_b :
    With(FSub(LengthSquared(oc), FMul(radius, radius)), LAMBDA c :
    With(FSub(FMul(half_b, half_b), FMul(a, c)), LAMBDA discriminant :
        IF FLt(discriminant, Zero) THEN None
        ELSE With(FSqrt(discriminant), LAMBDA sqrtd :
                 Some(<<FDiv(FSub(FNeg(half_b), sqrtd), a),
                        FDiv(FAdd(FNeg(half_b), sqrtd), a)>>))))))

\* A test that tries the larger root first
NearestRoot_far_first(center, radius, r, t_min, t_max) ==
    LET rs == Roots(center, radius, r)
    IN  IF ~rs.some THEN None
        ELSE IF FLt(rs.val[2], t_min) \/ FLt(t_max, rs.val[2])
             THEN IF FLt(rs.val[1], t_min) \/ FLt(t_max, rs.val[1])
                  THEN None
                  ELSE Some(rs.val[1])
             ELSE Some(rs.val[2])

\* The root the hit test accepts: the first root if it lies in
\* [t_min, t_max], else the second if that does, else None.
NearestRoot(center, radius, r, t_min, t_max) ==
    With(Roots(center, radius, r), LAMBDA rs :
        IF ~rs.some THEN None
        ELSE IF FLt(rs.val[1], t_min) \/ FLt(t_max, rs.val[1])
             THEN IF FLt(rs.val[2], t_min) \/ FLt(t_max, rs.val[2])
                  THEN None
                  ELSE Some(rs.val[2])
             ELSE Some(rs.val[1]))

\* A record whose normal is always the outward normal
HitRecordAt_outward(center, radius, material, r, root) ==
    LET p              == at(r, root)
        outward_normal == VDiv(VSub(p, center), radius)
    IN  [t |-> root, p |-> p,
         normal |-> outward_normal,
         front_face |-> FLt(Dot(r.dir, outward_normal), Zero),
         material |-> material]

\* The record built for an accepted root: hit point, oriented normal.
HitRecordAt(center, radius, material, r, root) ==
    With(at(r, root), LAMBDA p :
    With(VDiv(VSub(p, center), radius), LAMBDA outward_normal :
    With(FLt(Dot(r.dir, outward_normal), Zero), LAMBDA front_face :
        [t |-> root, p |-> p,
         normal |-> IF front_face THEN outward_normal ELSE VNeg(outward_normal),
         front_face |-> front_face,
         material |-> material])))

Sphere_hit(s, r, t_min, t_max) ==
    With(NearestRoot(s.center, s.radius, r, t_min, t_max), LAMBDA root :
        IF root.some
        THEN Some(HitRecordAt(s.center, s.radius, s.material, r, root.val))
        ELSE None)

Sphere_bounding_box(s) ==
    Some(AABB(VSub(s.center, Vec3(s.radius, s.radius, s.radius)),
              VAdd(s.center, Vec3(s.radius, s.radius, s.radius))))

\* MovingSphere::center
center(s, time) ==
    VAdd(s.center0,
         VScale(FDiv(FSub(time, s.time0), FSub(s.time1, s.time0)),
                VSub(s.center1, s.center0)))

MovingSphere_hit(s, r, t_min, t_max) ==
    With(center(s, r.time), LAMBDA c :
    With(NearestRoot(c, s.radius, r, t_min, t_max), LAMBDA root :
        IF root.some
        THEN Some(HitRecordAt(c, s.radius, s.material, r, root.val))
        ELSE None))

\* A box around the sphere where it is at time0 alone
MovingSphere_bounding_box_start(s, time0, time1) ==
    Some(AABB(VSub(center(s, time0), Vec3(s.radius, s.radius, s.radius)),
              VAdd(center(s, time0), Vec3(s.radius, s.radius, s.radius))))

MovingSphere_bounding_box(s, time0, time1) ==
    With2(center(s, time0), center(s, time1), LAMBDA c0, c1 :
    With2(AABB(VSub(c0, Vec3(s.radius, s.radius, s.radius)),
               VAdd(c0, Vec3(s.radius, s.radius, s.radius))),
          AABB(VSub(c1, Vec3(s.radius, s.radius, s.radius)),
               VAdd(c1, Vec3(s.radius, s.radius, s.radius))),
          LAMBDA box0, box1 : Some(surrounding_box(box0, box1))))

(***************************************************************************)
(* BVHNode and the Hittable dispatch                                       *)
(***************************************************************************)
BVHNode(left, right, aabb_box) ==
    [kind |-> "BVHNode", left |-> left, right |-> right, aabb_box |-> aabb_box]

\* Hittable::hit (enum dispatch), with BVHNode::hit as its third arm.
RECURSIVE Hittable_hit(_, _, _, _)
\* BVHNode::hit returning the first hit found: the left hit when there is
\* one, the right subtree probed otherwise.
BVHNode_hit_first_found(n, r, t_min, t_max) ==
    IF ~AABB_hit(n.aabb_box, r, t_min, t_max) THEN None
    ELSE LET hit_left == Hittable_hit(n.left, r, t_min, t_max)
         IN  IF hit_left.some THEN hit_left
             ELSE Hittable_hit(n.right, r, t_min, t_max)

\* BVHNode::hit with the right subtree probed over [t_min, t_max]
BVHNode_hit_untightened(n, r, t_min, t_max) ==
    IF ~AABB_hit(n.aabb_box, r, t_min, t_max) THEN None
    ELSE LET hit_left  == Hittable_hit(n.left, r, t_min, t_max)
             hit_right == Hittable_hit(n.right, r, t_min, t_max)
         IN  IF hit_right.some THEN hit_right
             ELSE IF hit_left.some THEN hit_left
             ELSE None

\* BVHNode::hit with both subtrees probed over [t_min, t_max] and the left
\* result preferred
BVHNode_hit_left_preferred(n, r, t_min, t_max) ==
    IF ~AABB_hit(n.aabb_box, r, t_min, t_max) THEN None
    ELSE LET hit_left  == Hittable_hit(n.left, r, t_min, t_max)
             hit_right == Hittable_hit(n.right, r, t_min, t_max)
         IN  IF hit_left.some THEN hit_left
             ELSE IF hit_right.some THEN hit_right
             ELSE None

BVHNode_hit(n, r, t_min, t_max) ==
    IF ~AABB_hit(n.aabb_box, r, t_min, t_max) THEN None
    ELSE With(Hittable_hit(n.left, r, t_min, t_max), LAMBDA hit_left :
         With(IF hit_left.some THEN hit_left.val.t ELSE t_max,
              LAMBDA hit_right_tmax :
         With(Hittable_hit(n.right, r, t_min, hit_right_tmax),
              LAMBDA hit_right :
             IF hit_right.some THEN hit_right
             ELSE IF hit_left.some THEN hit_left
             ELSE None)))

Hittable_hit(h, r, t_min, t_max) ==
    CASE h.kind = "Sphere"       -> Sphere_hit(h, r, t_min, t_max)
      [] h.kind = "MovingSphere" -> MovingSphere_hit(h, r, t_min, t_max)
      [] h.kind = "BVHNode"      -> BVHNode_hit(h, r, t_min, t_max)

Hittable_bounding_box(h, time0, time1) ==
    CASE h.kind = "Sphere"       -> Sphere_bounding_box(h)
      [] h.kind = "MovingSphere" -> MovingSphere_bounding_box(h, time0, time1)
      [] h.kind = "BVHNode"      -> Some(h.aabb_box)

\* A loop that probes every hittable over [t_min, t_max]: the last hit wins
RECURSIVE hit_list_loop_last_found(_, _, _, _, _)
hit_list_loop_last_found(hittables, r, t_min, t_max, k) ==
    IF k = 0 THEN [hit_rec |-> None, closest_so_far |-> t_max]
    ELSE LET st  == hit_list_loop_last_found(hittables, r, t_min, t_max, k - 1)
             got == Hittable_hit(hittables[k], r, t_min, t_max)
         IN  IF got.some
             THEN [hit_rec |-> got, closest_so_far |-> got.val.t]
             ELSE st

\* hit_list: the loop over the first k hittables, carrying
\* (hit_rec, closest_so_far).
RECURSIVE hit_list_loop(_, _, _, _, _)
hit_list_loop(hittables, r, t_min, t_max, k) ==
    IF k = 0 THEN [hit_rec |-> None, closest_so_far |-> t_max]
    ELSE With(hit_list_loop(hittables, r, t_min, t_max, k - 1), LAMBDA st :
         With(Hittable_hit(hittables[k], r, t_min, st.closest_so_far),
              LAMBDA got :
             IF got.some
             THEN [hit_rec |-> got, closest_so_far |-> got.val.t]
             ELSE st))

hit_list(hittables, r, t_min, t_max) ==
    hit_list_loop(hittables, r, t_min, t_max, Len(hittables)).hit_rec

\* Option::unwrap
unwrap(o) == IF o.some THEN o.val ELSE Panicked

\* BVHNode::box_compare
box_compare(a, b, axis) ==
    With2(unwrap(Hittable_bounding_box(a, Zero, Zero)),
          unwrap(Hittable_bounding_box(b, Zero, Zero)), LAMBDA box_a, box_b :
        IF box_a = Panicked \/ box_b = Panicked THEN "panic"
        ELSE With(FSub(VIndex(box_a.minimum, axis), VIndex(box_b.minimum, axis)),
                  LAMBDA cmp :
                 IF FLt(cmp, Zero) THEN "Less" ELSE "Greater"))

\* A 0 arm that returns a pair of children: a point at the origin, twice
no_objects_degenerate(k) ==
    [left  |-> [kind |-> "Sphere", center |-> <<Zero, Zero, Zero>>,
                radius |-> Zero, material |-> None],
     right |-> [kind |-> "Sphere", center |-> <<Zero, Zero, Zero>>,
                radius |-> Zero, material |-> None],
     drawn |-> k + 1]

\* The 0 arm of new_helper's match: panic!("BVHNode::new() got a list of 0
\* objects.")
no_objects(k) == [left |-> Panicked, right |-> Panicked, drawn |-> k + 1]

\* A 1 arm whose second child is not the primitive
one_object_left_only(src_objects, start, k) ==
    [left  |-> src_objects[start + 1],
     right |-> [kind |-> "Sphere", center |-> <<Zero, Zero, Zero>>,
                radius |-> Zero, material |-> None],
     drawn |-> k + 1]

\* The 1 arm: (src_objects[start].clone(), src_objects[start].clone())
one_object(src_objects, start, k) ==
    [left |-> src_objects[start + 1], right |-> src_objects[start + 1],
     drawn |-> k + 1]

\* A 2 arm that takes the first primitive twice
two_objects_first_twice(src_objects, start, axis, k) ==
    [left |-> src_objects[start + 1], right |-> src_objects[start + 1],
     drawn |-> k + 1]

\* A 2 arm that keeps the order of the list
two_objects_list_order(src_objects, start, axis, k) ==
    [left |-> src_objects[start + 1], right |-> src_objects[start + 2],
     drawn |-> k + 1]

\* The 2 arm: the pair as listed if the comparator says Greater, swapped
\* otherwise
two_objects(src_objects, start, axis, k) ==
    With(box_compare(src_objects[start + 1], src_objects[start + 2], axis),
         LAMBDA ord :
        IF ord = "panic" THEN no_objects(k)
        ELSE IF ord = "Greater"
        THEN [left |-> src_objects[start + 1],
              right |-> src_objects[start + 2], drawn |-> k + 1]
        ELSE [left |-> src_objects[start + 2],
              right |-> src_objects[start + 1], drawn |-> k + 1])

\* A new_helper that splits one place before the end of the range
RECURSIVE new_helper_late_mid(_, _, _, _, _, _, _)
new_helper_late_mid(src_objects, start, end, time0, time1, rng, k) ==
    LET axis        == rng[k + 1]
        num_objects == end - start
        mid         == end - 1
        \* src_objects[i] of the code is src_objects[i + 1] here
        children    ==
            CASE num_objects = 0 -> no_objects(k)
              [] num_objects = 1 -> one_object(src_objects, start, k)
              [] num_objects = 2 -> two_objects(src_objects, start, axis, k)
              [] num_objects > 2 ->
                   With(new_helper_late_mid(src_objects, start, mid, time0, time1, rng,
                                   k + 1), LAMBDA lsub :
                       IF lsub.node = Panicked
                       THEN [left |-> Panicked, right |-> Panicked,
                             drawn |-> lsub.drawn]
                       ELSE
                   With(new_helper_late_mid(src_objects, mid, end, time0, time1, rng,
                                   lsub.drawn), LAMBDA rsub :
                       [left |-> lsub.node, right |-> rsub.node,
                        drawn |-> rsub.drawn]))
    IN  With(children, LAMBDA c :
            IF c.left = Panicked \/ c.right = Panicked
            THEN [node |-> Panicked, drawn |-> c.drawn]
            ELSE
        With2(unwrap(Hittable_bounding_box(c.left, time0, time1)),
              unwrap(Hittable_bounding_box(c.right, time0, time1)),
              LAMBDA box_left, box_right :
            IF box_left = Panicked \/ box_right = Panicked
            THEN [node |-> Panicked, drawn |-> c.drawn]
            ELSE [node  |-> BVHNode(c.left, c.right,
                                    surrounding_box(box_left, box_right)),
                  drawn |-> c.drawn]))

\* BVHNode::new_helper.  rng is the stream of values random_usize(0, 3)
\* returns and k the number of values already drawn; the result carries the
\* node, or Panicked, and the number of values drawn once the call returns.
\* The sorted copy `objects` of the > 2 arm is never read: both recursive
\* calls are given src_objects.
RECURSIVE new_helper(_, _, _, _, _, _, _)
new_helper(src_objects, start, end, time0, time1, rng, k) ==
    LET axis        == rng[k + 1]
        num_objects == end - start
        mid         == start + (num_objects \div 2)
        \* src_objects[i] of the code is src_objects[i + 1] here
        children    ==
            CASE num_objects = 0 -> no_objects(k)
              [] num_objects = 1 -> one_object(src_objects, start, k)
              [] num_objects = 2 -> two_objects(src_objects, start, axis, k)
              [] num_objects > 2 ->
                   With(new_helper(src_objects, start, mid, time0, time1, rng,
                                   k + 1), LAMBDA lsub :
                       IF lsub.node = Panicked
                       THEN [left |-> Panicked, right |-> Panicked,
                             drawn |-> lsub.drawn]
                       ELSE
                   With(new_helper(src_objects, mid, end, time0, time1, rng,
                                   lsub.drawn), LAMBDA rsub :
                       [left |-> lsub.node, right |-> rsub.node,
                        drawn |-> rsub.drawn]))
    IN  With(children, LAMBDA c :
            IF c.left = Panicked \/ c.right = Panicked
            THEN [node |-> Panicked, drawn |-> c.drawn]
            ELSE
        With2(unwrap(Hittable_bounding_box(c.left, time0, time1)),
              unwrap(Hittable_bounding_box(c.right, time0, time1)),
              LAMBDA box_left, box_right :
            IF box_left = Panicked \/ box_right = Panicked
            THEN [node |-> Panicked, drawn |-> c.drawn]
            ELSE [node  |-> BVHNode(c.left, c.right,
                                    surrounding_box(box_left, box_right)),
                  drawn |-> c.drawn]))

\* BVHNode::new
BVHNode_new(src_objects, time0, time1, rng) ==
    new_helper(src_objects, 0, Len(src_objects), time0, time1, rng, 0).node

(***************************************************************************)
(* Materials (construction-time parameters only)                           *)
(***************************************************************************)
Color(r, g, b) == Vec3(r, g, b)

Lambertian(albedo) == [kind |-> "Lambertian", albedo |-> albedo]

Metal(albedo, fuzz) == [kind |-> "Metal", albedo |-> albedo, fuzz |-> fuzz]

Dialectric(index_of_refraction) ==
    [kind |-> "Dialectric", index_of_refraction |-> index_of_refraction]

(***************************************************************************)
(* Bounded inputs of the geometry specification                            *)
(***************************************************************************)
MaxObjects == 3

\* Vec3 with integer components
IVec(x, y, z) == Vec3(Int2F(x), Int2F(y), Int2F(z))

Half == <<1, 2>>

\* A lower bound of 0
T_MIN_zero == Zero

\* The interval ray_color queries: t_min = 0.001, t_max = INFINITY
T_MIN == <<1, 1000>>

\* The shutter / build interval of raytracing_weekend_scene
Time0 == Zero

Time1 == One

SmallSphere == Sphere(IVec(0, 0, -1), Half, Dialectric(<<3, 2>>))

NearSphere == Sphere(IVec(0, 0, -3), One, Lambertian(Color(Half, Half, Half)))

FarSphere == Sphere(IVec(0, 0, -6), Int2F(2), Metal(Color(<<7, 10>>, <<3, 5>>, Half), Zero))

Mover == MovingSphere(IVec(1, 0, -3), IVec(1, 2, -3), Zero, One, One,
                      Lambertian(Color(<<2, 5>>, <<1, 5>>, <<1, 10>>)))

Catalogue == {SmallSphere, NearSphere, FarSphere, Mover}

\* The lists of at most n distinct elements of S
RECURSIVE ListsUpTo(_, _)
ListsUpTo(S, n) ==
    IF n = 0 THEN {<<>>}
    ELSE LET shorter == ListsUpTo(S, n - 1)
         IN  shorter \cup
             {Append(q, x) : q \in {w \in shorter : Len(w) = n - 1},
                             x \in S}

Range(q) == {q[i] : i \in DOMAIN q}

\* Every non-empty list of at most MaxObjects distinct catalogue primitives
Worlds ==
    {w \in ListsUpTo(Catalogue, MaxObjects) :
        Len(w) > 0 /\ Cardinality(Range(w)) = Len(w)}

\* The lists BVHNode::new can be given: the worlds and the empty list
Scenes == Worlds \cup {<<>>}

Rays ==
    { Ray(IVec(0, 0, 0), IVec(0, 0, -1), Zero),      \* down the -z axis
      Ray(IVec(0, 0, 0), IVec(0, 0, -2), One),       \* the same, not normalized
      Ray(IVec(0, 0, 0), Vec3(NegZero, Zero, Int2F(-1)), Half),
      Ray(IVec(0, 0, 0), IVec(1, 0, -3), Zero),      \* at the mover's centre, time 0
      Ray(IVec(1, 1, 0), IVec(0, 0, -1), Half),      \* at the mover's centre, time 1/2
      Ray(IVec(0, 0, 0), IVec(1, 2, -3), One),       \* at the mover's centre, time 1
      Ray(IVec(0, 0, 0), IVec(0, 1, 0), Zero),       \* misses everything
      Ray(IVec(0, 0, -3), IVec(1, 0, 0), Zero),      \* from the near sphere's centre
      Ray(IVec(-3, 0, -3), IVec(1, 0, 0), Half),     \* across, along +x
      Ray(IVec(0, 0, -10), IVec(0, 0, 1), Zero),     \* from behind, along +z
      Ray(IVec(0, 4, 0), IVec(0, -4, -3), Zero),     \* at (0,0,-3), |dir| = 5
      Ray(IVec(1, 0, 0), IVec(-1, 1, -5), One) }     \* oblique

\* Rays for the box test alone: origins inside the near sphere's box, with
\* zero and negative-zero direction components, a direction long enough to
\* leave the box before t = 0.001, and a ray passing beside the box.
ProbeRays ==
    { Ray(IVec(0, 0, -3), IVec(0, 0, 0), Zero),
      Ray(IVec(0, 0, -3), Vec3(NegZero, Zero, One), Zero),
      Ray(IVec(0, 0, -3), Vec3(One, NegZero, NegZero), Zero),
      Ray(IVec(0, 0, -3), IVec(-1, -1, -1), Zero),
      Ray(Vec3(Half, Half, Int2F(-3)), IVec(1, 2, 0), Zero),
      Ray(IVec(0, 0, -3), IVec(2000, 0, 0), Zero),
      Ray(IVec(-3, -6, -3), IVec(1, 1, 0), Zero),
      Ray(IVec(-3, 0, -3), IVec(1, 0, 0), Zero),
      Ray(IVec(0, 0, 0), IVec(0, 0, -1), Zero) }

Intervals ==
    { <<T_MIN, INFINITY>>, <<T_MIN, Int2F(2)>>, <<One, INFINITY>> }

\* The queries made of a constructed tree
\* <<r, t_min, t_max>>: down the -z axis, from behind along +z, and from
\* the near sphere's centre along +x, where the sphere is hit at t = 1
TreeQueries ==
    { <<Ray(IVec(0, 0, 0), IVec(0, 0, -1), Zero), T_MIN, INFINITY>>,
      <<Ray(IVec(0, 0, -10), IVec(0, 0, 1), Zero), T_MIN, INFINITY>>,
      <<Ray(IVec(0, 0, -3), IVec(1, 0, 0), Zero), T_MIN, INFINITY>>,
      <<Ray(IVec(0, 0, -3), IVec(1, 0, 0), Zero), One, INFINITY>> }

\* The number of values new_helper draws from random_usize for n objects
RECURSIVE Draws(_)
Draws(n) == IF n <= 2 THEN 1 ELSE 1 + Draws(n \div 2) + Draws(n - (n \div 2))

\* Every tree BVHNode::new can return for a list, over its axis draws
Trees ==
    [w \in Worlds |->
        {BVHNode_new(w, Time0, Time1, rng) :
            rng \in [1 .. Draws(Len(w)) -> 0 .. 2]}]

(***************************************************************************)
(* ray_color: the integrator, as the steps of its recursion                *)
(***************************************************************************)
\* A product that is its second operand
VMul_inner(u0, v0) == v0

\* A product that adds
VMul_sum(u0, v0) == VAdd(u0, v0)

\* Vec3 * Vec3, component-wise
VMul(u0, v0) ==
    With2(u0, v0, LAMBDA u, v :
        <<FMul(u[1], v[1]), FMul(u[2], v[2]), FMul(u[3], v[3])>>)

length(v) == FSqrt(LengthSquared(v))

unit_vector(v) == VDiv(v, length(v))

\* Vec3::zero()
Color_zero == Color(Zero, Zero, Zero)

\* The background gradient at the end of ray_color
Background(r) ==
    LET unit_direction == unit_vector(r.dir)
        t == FMul(Half, FAdd(unit_direction[2], One))
    IN  VAdd(VScale(FSub(One, t), Color(One, One, One)),
             VScale(t, Color(Half, <<7, 10>>, One)))

\* A base case that lets depth 0 through
BaseCase_negative_only(depth) == depth < 0

\* ray_color's first test: if depth <= 0 { return Color::zero(); }
BaseCase(depth) == depth <= 0

\* A recursive call that passes its own depth on
NextDepth_same(depth) == depth

\* The depth ray_color passes to its recursive call
NextDepth(depth) == depth - 1

\* The largest depth a trace starts with
MaxDepth == 3

\* No trace nests deeper than this; a guard of the recursive call
MaxStack == MaxDepth + 2

TraceDirs == {IVec(0, 1, 0), IVec(0, -4, -3)}

TraceRays == {Ray(IVec(0, 0, 0), d, Half) : d \in TraceDirs}

TraceMaterials ==
    {SmallSphere.material, NearSphere.material, FarSphere.material}

\* What hit_list(hittables, r, 0.001, INFINITY) can return: the scene and the
\* ray are arbitrary, so any record or none.  ray_color reads the record's
\* material and hands the record to scatter.
HitOutcomes ==
    {None} \cup
    {Some([t |-> One, p |-> IVec(0, 0, -1), normal |-> IVec(0, 1, 0),
           front_face |-> TRUE, material |-> m]) : m \in TraceMaterials}

\* What m.scatter(r, rec) can return, over its random draws: the pairs
\* <<Option<Ray>, attenuation>>.  Lambertian and Dialectric always scatter,
\* Metal scatters or absorbs; the scattered ray starts at rec.p and keeps
\* the incoming ray's time.
scatter(m, r, rec) ==
    LET scattered == {Some(Ray(rec.p, d, r.time)) : d \in TraceDirs}
    IN  CASE m.kind = "Lambertian" -> {<<s, m.albedo>> : s \in scattered}
          [] m.kind = "Metal" ->
                 {<<s, m.albedo>> : s \in scattered \cup {None}}
          [] m.kind = "Dialectric" ->
                 {<<s, Color(One, One, One)>> : s \in scattered}

\* Background over the directions a traced ray can have, computed once
TraceBackground ==
    [d \in TraceDirs |-> Background(Ray(IVec(0, 0, 0), d, Zero))]

\* One activation of ray_color: its ray, its depth, and, once it has made
\* its recursive call, the attenuation it will multiply the result by
Frame(r, depth, attenuation) ==
    [r |-> r, depth |-> depth, attenuation |-> attenuation]

(***************************************************************************)
(* Material::scatter, per material.  The random values a call draws are    *)
(* parameters: p is what Vec3::random_in_unit_sphere() returns, rnd what   *)
(* random_f32() returns.                                                   *)
(***************************************************************************)
\* f32::abs
FAbs(x0) ==
    With(x0, LAMBDA x :
        IF IsNaN(x) THEN NaN
        ELSE IF x[2] = 0 THEN INFINITY
        ELSE IF x[1] = 0 THEN Zero
        ELSE <<Abs(x[1]), x[2]>>)

\* f32::powf(x, 5.0)
Powf5(x0) == With(x0, LAMBDA x : FMul(FMul(FMul(FMul(x, x), x), x), x))

\* Vec3::reflect
reflect(v0, nr) ==
    With2(v0, nr, LAMBDA v, n :
        VSub(v, VScale(FMul(Int2F(2), Dot(v, n)), n)))

\* Vec3::refract
refract(uvr, nr, etai_over_etat) ==
    With2(uvr, nr, LAMBDA uv, n :
    With(FMin(Dot(VNeg(uv), n), One), LAMBDA cos_theta :
    With(VScale(etai_over_etat, VAdd(uv, VScale(cos_theta, n))),
         LAMBDA r_out_perp :
    With(VScale(FNeg(FSqrt(FAbs(FSub(One, LengthSquared(r_out_perp))))), n),
         LAMBDA r_out_parallel :
        VAdd(r_out_perp, r_out_parallel)))))

\* Vec3::near_zero: every component smaller in magnitude than
\* f32::MIN_POSITIVE (2^-126).  The finite values of the model are ratios of
\* integers below 2^31, so the only ones under that threshold are the zeros.
near_zero(v0) ==
    With(v0, LAMBDA v : IsZero(v[1]) /\ IsZero(v[2]) /\ IsZero(v[3]))

\* Vec3::random_unit_vector, given the point random_in_unit_sphere returned
random_unit_vector(p) == unit_vector(p)

\* Lambertian::scatter
Lambertian_scatter(m, r, rec, p) ==
    With(VAdd(rec.normal, random_unit_vector(p)), LAMBDA direction0 :
    With(IF near_zero(direction0) THEN rec.normal ELSE direction0,
         LAMBDA scatter_direction :
        <<Some(Ray(rec.p, scatter_direction, r.time)), m.albedo>>))

\* A Metal::scatter that returns black with an absorbed ray
Metal_scatter_black_absorb(m, r, rec, p) ==
    LET reflected == reflect(unit_vector(r.dir), rec.normal)
        scattered == Ray(rec.p, VAdd(reflected, VScale(m.fuzz, p)), r.time)
    IN  IF FGt(Dot(scattered.dir, rec.normal), Zero)
        THEN <<Some(scattered), m.albedo>>
        ELSE <<None, Color_zero>>

\* Metal::scatter
Metal_scatter(m, r, rec, p) ==
    With(reflect(unit_vector(r.dir), rec.normal), LAMBDA reflected :
    With(Ray(rec.p, VAdd(reflected, VScale(m.fuzz, p)), r.time),
         LAMBDA scattered :
        IF FGt(Dot(scattered.dir, rec.normal), Zero)
        THEN <<Some(scattered), m.albedo>>
        ELSE <<None, m.albedo>>))

\* reflectance (Schlick's approximation)
reflectance(cosine, ref_idx) ==
    With(FDiv(FSub(One, ref_idx), FAdd(One, ref_idx)), LAMBDA r00 :
    With(FMul(r00, r00), LAMBDA r0 :
        FAdd(r0, FMul(FSub(One, r0), Powf5(FSub(One, cosine))))))

\* The refraction ratio Dialectric::scatter uses for a record
refraction_ratio(m, rec) ==
    IF rec.front_face THEN FDiv(One, m.index_of_refraction)
    ELSE m.index_of_refraction

\* cos_theta and sin_theta of Dialectric::scatter
cos_theta(r, rec) == FMin(Dot(VNeg(unit_vector(r.dir)), rec.normal), One)

sin_theta(r, rec) ==
    With(cos_theta(r, rec), LAMBDA c : FSqrt(FSub(One, FMul(c, c))))

cannot_refract(m, r, rec) ==
    FGt(FMul(refraction_ratio(m, rec), sin_theta(r, rec)), One)

\* Dialectric::scatter.  random_f32() is drawn only when cannot_refract is
\* false (|| short-circuits).
Dialectric_scatter(m, r, rec, rnd) ==
    With2(refraction_ratio(m, rec), unit_vector(r.dir),
          LAMBDA ratio, unit_direction :
    With(IF cannot_refract(m, r, rec)
            \/ FGt(reflectance(cos_theta(r, rec), ratio), rnd)
         THEN reflect(unit_direction, rec.normal)
         ELSE refract(unit_direction, rec.normal, ratio), LAMBDA direction :
    With(refract(direction, rec.normal, ratio), LAMBDA refracted :
        <<Some(Ray(rec.p, refracted, r.time)), Color(One, One, One)>>)))

\* Material::scatter (enum dispatch)
Material_scatter(m, r, rec, p, rnd) ==
    CASE m.kind = "Lambertian" -> Lambertian_scatter(m, r, rec, p)
      [] m.kind = "Metal"      -> Metal_scatter(m, r, rec, p)
      [] m.kind = "Dialectric" -> Dialectric_scatter(m, r, rec, rnd)

\* The materials of raytracing_weekend_scene: the ground, the three large
\* spheres, and one small sphere of each kind
ScatterMaterials ==
    { Lambertian(Color(Half, Half, Half)),
      Lambertian(Color(<<2, 5>>, <<1, 5>>, <<1, 10>>)),
      Lambertian(Color(<<1, 4>>, One, Zero)),
      Metal(Color(<<7, 10>>, <<3, 5>>, Half), Zero),
      Metal(Color(Half, One, <<3, 4>>), <<1, 4>>),
      Dialectric(<<3, 2>>) }

\* The sphere the scattering rays hit: radius 1 about the origin
UnitSphere(m) == Sphere(IVec(0, 0, 0), One, m)

\* Rays that hit it with exact roots: from inside beyond the critical angle
\* of glass, from inside head-on (direction of length 2), from outside
\* head-on, from outside obliquely, and tangent to it
ScatterRays ==
    { Ray(Vec3(<<2, 5>>, <<4, 5>>, Zero), IVec(1, 0, 0), Zero),
      Ray(IVec(0, 0, 0), IVec(0, 0, -2), Half),
      Ray(IVec(0, 0, 3), IVec(0, 0, -1), Zero),
      Ray(Vec3(<<3, 5>>, <<9, 5>>, Zero), IVec(0, -1, 0), One),
      Ray(IVec(1, -1, 0), IVec(0, 1, 0), Zero) }

\* Vec3::random_range(-1.0, 1.0): some points of the cube [-1, 1)^3
CubeDraws ==
    { IVec(0, 0, 0),
      IVec(-1, 0, 0),
      Vec3(Zero, <<-1, 2>>, Zero),
      Vec3(<<3, 10>>, <<2, 5>>, Zero),
      Vec3(Zero, Zero, <<1, 2>>),
      Vec3(Zero, Zero, <<-1, 2>>),
      Vec3(<<-3, 10>>, Zero, <<-2, 5>>),
      Vec3(<<-9, 10>>, <<-9, 10>>, Zero) }

\* Vec3::random_in_unit_sphere: the loop draws again while
\* length_squared() >= 1.0, so it returns a point of the open ball
random_in_unit_sphere == {p \in CubeDraws : ~FLe(One, LengthSquared(p))}

(***************************************************************************)
(* main: the parallel render driver and the image writer                   *)
(***************************************************************************)
ImageWidth == 2

ImageHeight == 3

SamplesPerPixel == 2

\* The number of rayon worker threads
NumWorkers == 2

max_depth == 50

\* let range: Vec<i32> = (0..image_height).rev().collect();
\* range[k] is the code's range[k - 1]
range == [k \in 1 .. ImageHeight |-> ImageHeight - k]

\* The values one worker's random_f32() takes while it renders a row
RandomDraws == {Zero, <<1, 4>>, Half}

\* The fields Camera::new stores for a pinhole camera at the origin looking
\* down -z: viewport 4 x 2 at focus distance 1, aperture 0, shutter [0, 1]
RenderCamera ==
    [origin |-> IVec(0, 0, 0),
     lower_left_corner |-> IVec(-2, -1, -1),
     horizontal |-> IVec(4, 0, 0),
     vertical |-> IVec(0, 2, 0),
     u |-> IVec(1, 0, 0),
     v |-> IVec(0, 1, 0),
     lens_radius |-> Zero,
     time0 |-> Time0,
     time1 |-> Time1]

\* The scene of the render specification: no primitive, every ray misses
RenderWorld == <<>>

\* random_f32_range: rng.gen_range(min..max).  q in [0, 1) is the uniform
\* draw behind it.  gen_range panics on an empty range ("cannot sample empty
\* range"), and min..max is empty unless min < max.
random_f32_range(min, max, q) ==
    IF FLt(min, max) THEN FAdd(min, FMul(q, FSub(max, min))) ELSE Panicked

\* Camera::get_ray; disk is the value of random_in_unit_disk() and q the
\* draw behind random_f32_range(time0, time1)
get_ray(camera, s, t, disk, q) ==
    LET rd == VScale(camera.lens_radius, disk)
        offset == VAdd(VScale(rd[1], camera.u), VScale(rd[2], camera.v))
        time == random_f32_range(camera.time0, camera.time1, q)
    IN  IF time = Panicked THEN Panicked
        ELSE Ray(VAdd(camera.origin, offset),
                 VSub(VSub(VAdd(VAdd(camera.lower_left_corner,
                                     VScale(s, camera.horizontal)),
                                VScale(t, camera.vertical)),
                           camera.origin),
                      offset),
                 time)

\* ray_color(r, hittables, depth) for a list in which hit_list finds nothing
ray_color_miss(r, depth) ==
    IF BaseCase(depth) THEN Color_zero ELSE Background(r)

\* The fold over the samples of pixel (i, j): n samples summed, every
\* random_f32() of the row's worker yielding q
RECURSIVE SampleSum(_, _, _, _)
SampleSum(i, j, q, n) ==
    IF n = 0 THEN Color(Zero, Zero, Zero)
    ELSE LET u == FDiv(FAdd(Int2F(i), q), FSub(Int2F(ImageWidth), One))
             v == FDiv(FAdd(Int2F(j), q), FSub(Int2F(ImageHeight), One))
             r == get_ray(RenderCamera, u, v, IVec(0, 0, 0), q)
         IN  VAdd(SampleSum(i, j, q, n - 1),
                  ray_color_miss(r, max_depth))

\* The inner map of the render loop: the colours of image row j, column 0
\* first
RenderRow(j, q) ==
    [c \in 1 .. ImageWidth |-> SampleSum(c - 1, j, q, SamplesPerPixel)]

\* A collect that stores each row where the next free place is
Collected_in_completion_order(slots, k, row) ==
    LET free == {n \in DOMAIN slots : ~slots[n].some}
        first == CHOOSE n \in free : \A o \in free : n <= o
    IN  [slots EXCEPT ![first] = Some(row)]

\* rayon's collect of an indexed parallel iterator: the result of item k
\* of the source goes to place k of the vector
Collected(slots, k, row) == [slots EXCEPT ![k] = Some(row)]

clamp(x, min, max) == IF FLt(x, min) THEN min ELSE IF FGt(x, max) THEN max ELSE x

\* f32 as u32 for a finite or NaN operand: truncation, NaN and negatives to 0
AsU32(x) ==
    IF IsNaN(x) \/ FSign(x) < 0 \/ IsZero(x) THEN 0 ELSE x[1] \div x[2]

\* write_color: the three integers of one pixel's line
write_color(color, samples_per_pixel) ==
    LET scale == FDiv(One, Int2F(samples_per_pixel))
        r == FSqrt(FMul(color[1], scale))
        b == FSqrt(FMul(color[2], scale))
        g == FSqrt(FMul(color[3], scale))
        top == <<999, 1000>>
    IN  <<AsU32(FMul(Int2F(256), clamp(r, Zero, top))),
          AsU32(FMul(Int2F(256), clamp(b, Zero, top))),
          AsU32(FMul(Int2F(256), clamp(g, Zero, top)))>>

\* The pixel lines written for the rows in order, each row column 0 first
RECURSIVE WriteRows(_, _)
WriteRows(rows, n) ==
    IF n = 0 THEN <<>>
    ELSE WriteRows(rows, n - 1) \o
         [c \in 1 .. Len(rows[n]) |-> write_color(rows[n][c], SamplesPerPixel)]

(***************************************************************************)
(* State                                                                   *)
(***************************************************************************)
VARIABLES
    pc,         \* "scene", "built", "cast", "probed"; "trace"; "render",
                \* "collected", "written"
    world,      \* the flat list of primitives
    bvh,        \* Some(root BVHNode) once built
    ray, t_min, t_max,   \* the query last made
    flat_hit,   \* hit_list(world, ray, t_min, t_max)
    bvh_hit,    \* hit_list(<<bvh>>, ray, t_min, t_max)
    prim_hits,  \* prim_hits[i] = world[i].hit(ray, t_min, t_max)
    box_hit,    \* bvh.aabb_box.hit(ray, t_min, t_max)
    stack,      \* the activations of ray_color, the outermost first
    returned,   \* Some(colour) the activation that last returned gave back
    depth0,     \* the depth the outermost ray_color was called with
    calls,      \* the number of activations of ray_color so far
    hit_tests,  \* the number of calls of hit_list so far
    scatters,   \* the number of calls of Material::scatter so far
    task,       \* task[k]: "todo", "running" or "done", for item k of range
    slots,      \* the vector collect is filling: slots[k] is None or Some(row)
    rows,       \* the collected Vec<Vec<Vec3>>
    rendered,   \* rendered[<<i, j>>]: the colours computed for pixel (i, j)
    finished,   \* the items of range in the order their workers finished
    written,    \* the pixel lines of image.ppm
    axes,       \* the values random_usize(0, 3) returned to BVHNode::new
    sc_material, sc_ray, sc_rec,   \* the arguments of the last scatter call
    sc_out,     \* what that call returned: <<Option<Ray>, attenuation>>
    ix_vec,     \* one vector: its scalar Vec3 and the f32x4 of its SIMD Vec3
    ix_index,   \* the index last used on it
    ix_out,     \* what indexing returned in each implementation, or the panic
    cam,        \* the camera of the path specification
    trail,      \* the activations of ray_color so far: what each was given,
                \* what hit_list returned to it and what scatter returned
    old         \* the call of BVHNode::new of src/src/hit.rs: its build, its
                \* activations, and the node it returned

geomVars == <<world, bvh, ray, t_min, t_max, flat_hit, bvh_hit, prim_hits,
              box_hit>>

traceVars == <<stack, returned, depth0, calls, hit_tests, scatters>>

renderVars == <<task, slots, rows, rendered, finished, written>>

scatterVars == <<sc_material, sc_ray, sc_rec, sc_out>>

indexVars == <<ix_vec, ix_index, ix_out>>

pathVars == <<cam, trail>>

oldVars == <<old>>

otherVars == <<axes, scatterVars, indexVars, pathVars, oldVars>>

vars == <<pc, geomVars, traceVars, renderVars, otherVars>>

\* BVHNode::new of src/src/hit.rs has not been called
OldIdle ==
    [state |-> "idle", build |-> "checked", stack |-> <<>>, node |-> None,
     call |-> <<0, 0>>]

\* No scene built, no query made
GeomIdle ==
    /\ bvh = None
    /\ ray = Ray(IVec(0, 0, 0), IVec(0, 0, -1), Zero)
    /\ t_min = T_MIN
    /\ t_max = INFINITY
    /\ flat_hit = None
    /\ bvh_hit = None
    /\ prim_hits = <<>>
    /\ box_hit = FALSE

\* No ray_color running
TraceIdle ==
    /\ stack = <<>>
    /\ returned = None
    /\ depth0 = 0
    /\ calls = 0
    /\ hit_tests = 0
    /\ scatters = 0

\* The render loop not entered: every item of range waits for a worker
RenderIdle ==
    /\ task = [k \in 1 .. ImageHeight |-> "todo"]
    /\ slots = [k \in 1 .. ImageHeight |-> None]
    /\ rows = <<>>
    /\ rendered = [p \in (0 .. ImageWidth - 1) \X (0 .. ImageHeight - 1) |-> <<>>]
    /\ finished = <<>>
    /\ written = <<>>

\* No tree built by the construction specification, no material asked to
\* scatter, no vector indexed
OtherIdle ==
    /\ axes = <<>>
    /\ sc_material = None
    /\ sc_ray = None
    /\ sc_rec = None
    /\ sc_out = None
    /\ ix_vec = None
    /\ ix_index = 0
    /\ ix_out = None
    /\ cam = None
    /\ trail = <<>>
    /\ old = OldIdle

(***************************************************************************)
(* Specification of the scene queries                                      *)
(***************************************************************************)
Init ==
    /\ pc = "scene"
    /\ world \in Worlds
    /\ GeomIdle
    /\ TraceIdle
    /\ RenderIdle
    /\ OtherIdle

\* raytracing_weekend_scene: vec![BVHNode::new(&world, 0.0, 1.0).into()]
Build ==
    /\ pc = "scene"
    /\ \E rng \in [1 .. Draws(Len(world)) -> 0 .. 2] :
           bvh' = Some(BVHNode_new(world, Time0, Time1, rng))
    /\ pc' = "built"
    /\ UNCHANGED <<world, ray, t_min, t_max, flat_hit, bvh_hit, prim_hits,
                   box_hit, traceVars, renderVars, otherVars>>

\* One scene query, made over the flat list and over the list holding the tree
Cast ==
    /\ pc = "built"
    /\ \E r \in Rays, iv \in Intervals :
           /\ ray' = r
           /\ t_min' = iv[1]
           /\ t_max' = iv[2]
           /\ flat_hit' = hit_list(world, r, iv[1], iv[2])
           /\ bvh_hit' = hit_list(<<bvh.val>>, r, iv[1], iv[2])
           /\ prim_hits' = [i \in 1 .. Len(world) |->
                               Hittable_hit(world[i], r, iv[1], iv[2])]
           /\ box_hit' = AABB_hit(bvh.val.aabb_box, r, iv[1], iv[2])
    /\ pc' = "cast"
    /\ UNCHANGED <<world, bvh, traceVars, renderVars, otherVars>>

\* The box test of the root node alone: the first step of BVHNode::hit
Probe ==
    /\ pc = "built"
    /\ \E r \in ProbeRays, iv \in Intervals :
           /\ ray' = r
           /\ t_min' = iv[1]
           /\ t_max' = iv[2]
           /\ box_hit' = AABB_hit(bvh.val.aabb_box, r, iv[1], iv[2])
    /\ pc' = "probed"
    /\ UNCHANGED <<world, bvh, flat_hit, bvh_hit, prim_hits, traceVars,
                   renderVars, otherVars>>

Next == Build \/ Cast \/ Probe

Spec == Init /\ [][Next]_vars

(***************************************************************************)
(* Specification of the construction: BVHNode::new on any list, then       *)
(* BVHNode::hit on the root it returned                                    *)
(***************************************************************************)
InitBuild ==
    /\ pc = "new"
    /\ world \in Scenes
    /\ GeomIdle
    /\ TraceIdle
    /\ RenderIdle
    /\ OtherIdle

\* BVHNode::new(&world, 0.0, 1.0): returns the root, or panics
New ==
    /\ pc = "new"
    /\ \E rng \in [1 .. Draws(Len(world)) -> 0 .. 2] :
           /\ axes' = rng
           /\ bvh' = With(BVHNode_new(world, Time0, Time1, rng), LAMBDA node :
                          IF node = Panicked THEN None ELSE Some(node))
    /\ pc' = IF bvh' = None THEN "panicked" ELSE "constructed"
    /\ UNCHANGED <<world, ray, t_min, t_max, flat_hit, bvh_hit, prim_hits,
                   box_hit, traceVars, renderVars, scatterVars, indexVars,
                   pathVars, oldVars>>

\* root.hit(r, t_min, t_max), and every primitive of the list probed alone
HitTree ==
    /\ pc = "constructed"
    /\ \E q \in TreeQueries :
           /\ ray' = q[1]
           /\ t_min' = q[2]
           /\ t_max' = q[3]
           /\ bvh_hit' = Hittable_hit(bvh.val, q[1], q[2], q[3])
           /\ prim_hits' = [i \in 1 .. Len(world) |->
                               Hittable_hit(world[i], q[1], q[2], q[3])]
           /\ box_hit' = AABB_hit(bvh.val.aabb_box, q[1], q[2], q[3])
    /\ pc' = "hit"
    /\ UNCHANGED <<world, bvh, flat_hit, traceVars, renderVars, otherVars>>

NextBuild == New \/ HitTree

SpecBuild == InitBuild /\ [][NextBuild]_vars

(***************************************************************************)
(* Specification of the builder of src/src/hit.rs:                         *)
(* BVHNode::new(src_objects, start, end, time0, time1), called after the   *)
(* builder of src/src/hit/bvh_node.rs on the same list                     *)
(***************************************************************************)
\* The width of usize in the model
UsizeBits == 16

\* The activations the stack has room for
MaxFrames == 3

\* How the build treats arithmetic overflow: overflow checks on (a panic),
\* or off (the value wraps)
Builds == {"checked", "wrapping"}

\* One activation of BVHNode::new: its arguments
OldFrame(src_objects, start, end) ==
    [src_objects |-> src_objects, start |-> start, end |-> end]

\* start - end does not fit usize
sub_overflows(start, end) == start < end

\* let num_objects = start - end, where no overflow check stops it
old_num_objects(start, end) == (start - end) % (2 ^ UsizeBits)

\* let box_left = left.bounding_box(time0, time1).unwrap();
\* let box_right = left.bounding_box(time0, time1).unwrap();
\* BVHNode { left, right, aabb_box: surrounding_box(&box_left, &box_right) }
old_node(left, right, time0, time1) ==
    With2(unwrap(Hittable_bounding_box(left, time0, time1)),
          unwrap(Hittable_bounding_box(left, time0, time1)),
          LAMBDA box_left, box_right :
        BVHNode(left, right, surrounding_box(box_left, box_right)))

\* The 1 and 2 arms.  src_objects[i] of the code is src_objects[i + 1] here.
old_children(src_objects, start, num_objects, axis) ==
    IF num_objects = 1
    THEN <<src_objects[start + 1], src_objects[start + 1]>>
    ELSE IF box_compare(src_objects[start + 1], src_objects[start + 2], axis)
            = "Greater"
         THEN <<src_objects[start + 1], src_objects[start + 2]>>
         ELSE <<src_objects[start + 2], src_objects[start + 1]>>

\* src_objects[start..end]
old_slice(src_objects, start, end) ==
    [i \in 1 .. end - start |-> src_objects[start + i]]

\* objects.sort_by(comparator): the orders of the list in which no element
\* compares Less than an element before it
sort_by(objects, axis) ==
    { [i \in DOMAIN objects |-> objects[f[i]]] :
        f \in { g \in [DOMAIN objects -> DOMAIN objects] :
                  /\ \A i, j \in DOMAIN objects : i # j => g[i] # g[j]
                  /\ \A i, j \in DOMAIN objects :
                        i < j => box_compare(objects[g[j]], objects[g[i]], axis)
                                     # "Less" } }

\* The calls made: on the whole list, with the two arguments exchanged, on
\* the range [1, len), and with start = 1 and end = 0
OldCalls ==
    {<<0, Len(world)>>, <<Len(world), 0>>, <<1, Len(world)>>, <<1, 0>>}

InitOld == InitBuild

\* main calls BVHNode::new(&world, start, end, 0.0, 1.0)
OldCall ==
    /\ pc \in {"constructed", "panicked"}
    /\ old.state = "idle"
    /\ \E build \in Builds, call \in OldCalls :
           old' = [state |-> "entered", build |-> build,
                   stack |-> <<OldFrame(world, call[1], call[2])>>,
                   node |-> None, call |-> call]
    /\ UNCHANGED <<pc, geomVars, traceVars, renderVars, axes, scatterVars,
                   indexVars, pathVars>>

\* The activation that was entered last
OldTop == old.stack[Len(old.stack)]

\* The activation panics: start - end overflows in a checked build; the 0
\* arm; an index past the end of src_objects in the 1 and 2 arms; a range
\* start..end that is not a range of src_objects in the _ arm
OldPanics ==
    LET f == OldTop
        len == Len(f.src_objects)
        num_objects == old_num_objects(f.start, f.end)
    IN  \/ old.build = "checked" /\ sub_overflows(f.start, f.end)
        \/ num_objects = 0
        \/ num_objects = 1 /\ f.start >= len
        \/ num_objects = 2 /\ f.start + 1 >= len
        \/ num_objects > 2 /\ (f.start > f.end \/ f.end > len)

\* The axis the activation draws: the value the builder of bvh_node.rs drew
\* at the same place of the sequence, any value past its end
OldAxes ==
    IF Len(old.stack) <= Len(axes) THEN {axes[Len(old.stack)]} ELSE 0 .. 2

\* The panic unwinds every activation
OldPanic ==
    /\ old.state = "entered"
    /\ OldPanics
    /\ old' = [old EXCEPT !.state = "panicked", !.stack = <<>>]
    /\ UNCHANGED <<pc, geomVars, traceVars, renderVars, axes, scatterVars,
                   indexVars, pathVars>>

\* The 1 and 2 arms: the activation returns a node.  An activation below the
\* first has the start and end of its caller, which took the _ arm, and so
\* takes it too: the activation that returns is the one main called.
OldLeaf ==
    /\ old.state = "entered"
    /\ ~OldPanics
    /\ old_num_objects(OldTop.start, OldTop.end) \in {1, 2}
    /\ Len(old.stack) = 1
    /\ \E axis \in OldAxes :
       \E c \in {old_children(OldTop.src_objects, OldTop.start,
                              old_num_objects(OldTop.start, OldTop.end),
                              axis)} :
           old' = [old EXCEPT !.state = "returned", !.stack = <<>>,
                              !.node = Some(old_node(c[1], c[2], Time0, Time1))]
    /\ UNCHANGED <<pc, geomVars, traceVars, renderVars, axes, scatterVars,
                   indexVars, pathVars>>

\* The _ arm: the range is copied and sorted, and the first of the two
\* calls BVHNode::new(&objects, start, end, time0, time1) is made
OldRecurse ==
    /\ old.state = "entered"
    /\ ~OldPanics
    /\ old_num_objects(OldTop.start, OldTop.end) > 2
    /\ Len(old.stack) < MaxFrames
    /\ \E axis \in OldAxes :
       \E objects \in sort_by(old_slice(OldTop.src_objects, OldTop.start,
                                        OldTop.end), axis) :
           old' = [old EXCEPT !.stack =
                       Append(@, OldFrame(objects, OldTop.start, OldTop.end))]
    /\ UNCHANGED <<pc, geomVars, traceVars, renderVars, axes, scatterVars,
                   indexVars, pathVars>>

\* The same call with no room left on the stack: the process is aborted
OldOverflow ==
    /\ old.state = "entered"
    /\ ~OldPanics
    /\ old_num_objects(OldTop.start, OldTop.end) > 2
    /\ Len(old.stack) = MaxFrames
    /\ old' = [old EXCEPT !.state = "overflowed"]
    /\ UNCHANGED <<pc, geomVars, traceVars, renderVars, axes, scatterVars,
                   indexVars, pathVars>>

NextOld == New \/ OldCall \/ OldPanic \/ OldLeaf \/ OldRecurse \/ OldOverflow

SpecOld == InitOld /\ [][NextOld]_vars

(***************************************************************************)
(* Specification of scattering: a ray hits the sphere and the material of  *)
(* the record is asked to scatter it, as ray_color does                    *)
(***************************************************************************)
InitScatter ==
    /\ pc = "material"
    /\ world = <<>>
    /\ GeomIdle
    /\ TraceIdle
    /\ RenderIdle
    /\ OtherIdle

\* let m = rec.material; m.scatter(&r, &rec), for a material of kind k
Scatter(k) ==
    /\ pc = "material"
    /\ \E m \in ScatterMaterials, r \in ScatterRays,
          p \in random_in_unit_sphere, rnd \in RandomDraws :
           /\ m.kind = k
           /\ sc_rec' = hit_list(<<UnitSphere(m)>>, r, T_MIN, INFINITY)
           /\ sc_rec'.some
           /\ sc_material' = sc_rec'.val.material
           /\ sc_ray' = r
           /\ sc_out' = Material_scatter(sc_rec'.val.material, r, sc_rec'.val,
                                         p, rnd)
    /\ pc' = "scattered"
    /\ UNCHANGED <<geomVars, traceVars, renderVars, axes, indexVars, pathVars, oldVars>>

NextScatter ==
    \/ Scatter("Lambertian")
    \/ Scatter("Metal")
    \/ Scatter("Dialectric")

SpecScatter == InitScatter /\ [][NextScatter]_vars

(***************************************************************************)
(* Specification of Vec3 indexing: one vector, built by Vec3::new in the   *)
(* scalar and in the SIMD implementation, read or written at an index      *)
(***************************************************************************)
\* The largest index tried
MaxIndex == 5

Components == {Zero, Int2F(-1), <<7, 2>>}

InitIndex ==
    /\ pc = "vector"
    /\ world = <<>>
    /\ GeomIdle
    /\ TraceIdle
    /\ RenderIdle
    /\ axes = <<>>
    /\ sc_material = None
    /\ sc_ray = None
    /\ sc_rec = None
    /\ sc_out = None
    /\ \E x \in Components, y \in Components, z \in Components :
           ix_vec = [scalar |-> Vec3(x, y, z), simd |-> simd_new(x, y, z)]
    /\ ix_index = 0
    /\ ix_out = None
    /\ cam = None
    /\ trail = <<>>
    /\ old = OldIdle

\* let got = v[i];
IndexRead(i) ==
    /\ pc = "vector"
    /\ ix_index' = i
    /\ ix_out' = [scalar |-> VIndex(ix_vec.scalar, i),
                  simd   |-> simd_index(ix_vec.simd, i)]
    /\ pc' = "read"
    /\ UNCHANGED <<geomVars, traceVars, renderVars, axes, scatterVars, ix_vec,
                   pathVars, oldVars>>

\* v[i] = x; ix_out is the vector afterwards
IndexWrite(i, x) ==
    /\ pc = "vector"
    /\ ix_index' = i
    /\ ix_out' = [scalar |-> VIndexMut(ix_vec.scalar, i, x),
                  simd   |-> simd_index_mut(ix_vec.simd, i, x)]
    /\ pc' = "stored"
    /\ UNCHANGED <<geomVars, traceVars, renderVars, axes, scatterVars, ix_vec,
                   pathVars, oldVars>>

NextIndex ==
    \/ \E i \in 0 .. MaxIndex : IndexRead(i)
    \/ \E i \in 0 .. MaxIndex, x \in {One, NaN} : IndexWrite(i, x)

SpecIndex == InitIndex /\ [][NextIndex]_vars

(***************************************************************************)
(* Specification of one trace: ray_color(r, hittables, depth0)             *)
(***************************************************************************)
Top == stack[Len(stack)]

Pop == SubSeq(stack, 1, Len(stack) - 1)

\* The activation on top of the stack has not yet made its recursive call
Running ==
    /\ pc = "trace"
    /\ stack # <<>>
    /\ ~Top.attenuation.some

InitTrace ==
    /\ pc = "trace"
    /\ world = <<>>
    /\ GeomIdle
    /\ RenderIdle
    /\ OtherIdle
    /\ depth0 \in -1 .. MaxDepth
    /\ \E r \in TraceRays : stack = <<Frame(r, depth0, None)>>
    /\ returned = None
    /\ calls = 1
    /\ hit_tests = 0
    /\ scatters = 0

\* if depth <= 0 { return Color::zero(); }
ReturnBlack ==
    /\ Running
    /\ BaseCase(Top.depth)
    /\ stack' = Pop
    /\ returned' = Some(Color_zero)
    /\ UNCHANGED <<pc, geomVars, depth0, calls, hit_tests, scatters, renderVars,
                   otherVars>>

\* hit_list returns None: the background gradient is returned
ReturnBackground ==
    /\ Running
    /\ ~BaseCase(Top.depth)
    /\ None \in HitOutcomes
    /\ hit_tests' = hit_tests + 1
    /\ stack' = Pop
    /\ returned' = Some(TraceBackground[Top.r.dir])
    /\ UNCHANGED <<pc, geomVars, depth0, calls, scatters, renderVars, otherVars>>

\* hit_list returns a record and its material absorbs: (None, _)
ReturnAbsorbed ==
    /\ Running
    /\ ~BaseCase(Top.depth)
    /\ \E h \in HitOutcomes :
           /\ h.some
           /\ \E out \in scatter(h.val.material, Top.r, h.val) : ~out[1].some
    /\ hit_tests' = hit_tests + 1
    /\ scatters' = scatters + 1
    /\ stack' = Pop
    /\ returned' = Some(Color_zero)
    /\ UNCHANGED <<pc, geomVars, depth0, calls, renderVars, otherVars>>

\* hit_list returns a record and its material scatters: the recursive call
\* ray_color(&scattered_ray, hittables, depth - 1) is made
Recurse ==
    /\ Running
    /\ ~BaseCase(Top.depth)
    /\ Len(stack) < MaxStack
    /\ \E h \in HitOutcomes :
           /\ h.some
           /\ \E out \in scatter(h.val.material, Top.r, h.val) :
                  /\ out[1].some
                  /\ stack' = Append(
                         [stack EXCEPT ![Len(stack)].attenuation = Some(out[2])],
                         Frame(out[1].val, NextDepth(Top.depth), None))
    /\ hit_tests' = hit_tests + 1
    /\ scatters' = scatters + 1
    /\ calls' = calls + 1
    /\ UNCHANGED <<pc, geomVars, returned, depth0, renderVars, otherVars>>

\* The recursive call has returned: attenuation * its result is returned
ReturnAttenuated ==
    /\ pc = "trace"
    /\ stack # <<>>
    /\ Top.attenuation.some
    /\ returned.some
    /\ stack' = Pop
    /\ returned' = Some(VMul(Top.attenuation.val, returned.val))
    /\ UNCHANGED <<pc, geomVars, depth0, calls, hit_tests, scatters, renderVars,
                   otherVars>>

NextTrace ==
    \/ ReturnBlack
    \/ ReturnBackground
    \/ ReturnAbsorbed
    \/ Recurse
    \/ ReturnAttenuated

\* ray_color is sequential code: an activation that can take a step takes it
SpecTrace == InitTrace /\ [][NextTrace]_vars /\ WF_vars(NextTrace)

(***************************************************************************)
(* Specification of one path: camera.get_ray(u, v), then                   *)
(* ray_color(&r, &world, depth0) over a scene, every hit_list and every    *)
(* scatter computed as the code computes it                                *)
(***************************************************************************)
\* Cameras as Camera::new stores them: the render camera (shutter [0, 1]),
\* the same with time0 = time1 = 0.5, and the same built with
\* focus_dist = 0.0 (horizontal, vertical and lower_left_corner - origin are
\* multiples of focus_dist)
PathCameras ==
    { RenderCamera,
      [RenderCamera EXCEPT !.time0 = Half, !.time1 = Half],
      [RenderCamera EXCEPT !.lower_left_corner = IVec(0, 0, 0),
                           !.horizontal = IVec(0, 0, 0),
                           !.vertical = IVec(0, 0, 0)] }

\* The (s, t) of the camera rays: through the image centre, up, down, right
\* and left of it.  With RenderCamera the directions are (0, 0, -1),
\* (0, 3/4, -1), (0, -3/4, -1), (3/4, 0, -1) and (-3/4, 0, -1).
PathSamples ==
    { <<Half, Half>>, <<Half, <<7, 8>>>>, <<Half, <<1, 8>>>>,
      <<<<11, 16>>, Half>>, <<<<5, 16>>, Half>> }

\* The primitives of the path scene: a glass ball on the -z axis, a matte
\* ball below and a mirror ball above it, and a mirror ball the ray to the
\* right grazes at (3, 0, -4)
PathWorld ==
    << Sphere(IVec(0, 0, -2), Half, Dialectric(<<3, 2>>)),
       Sphere(IVec(0, -3, -4), One, Lambertian(Color(Half, Half, Half))),
       Sphere(IVec(0, 3, -4), One, Metal(Color(<<7, 10>>, <<3, 5>>, Half), Zero)),
       Sphere(Vec3(Int2F(4), Zero, <<-13, 4>>), <<5, 4>>,
              Metal(Color(<<7, 10>>, <<3, 5>>, Half), Zero)) >>

\* The list ray_color is given, as raytracing_weekend_scene returns it:
\* vec![BVHNode::new(&world, 0.0, 1.0).into()]
PathScene == <<BVHNode_new(PathWorld, Time0, Time1, <<0, 1, 2>>)>>

\* The points random_in_unit_sphere returns along the path: the centre, and
\* half the matte ball's normal at its hit point and its opposite
PathDraws ==
    { IVec(0, 0, 0),
      Vec3(Zero, <<3, 10>>, <<2, 5>>),
      Vec3(Zero, <<-3, 10>>, <<-2, 5>>) }

InitPath ==
    /\ pc = "camera"
    /\ world = PathWorld
    /\ GeomIdle
    /\ RenderIdle
    /\ axes = <<>>
    /\ sc_material = None
    /\ sc_ray = None
    /\ sc_rec = None
    /\ sc_out = None
    /\ ix_vec = None
    /\ ix_index = 0
    /\ ix_out = None
    /\ cam \in PathCameras
    /\ trail = <<>>
    /\ old = OldIdle
    /\ depth0 \in 0 .. MaxDepth
    /\ stack = <<>>
    /\ returned = None
    /\ calls = 0
    /\ hit_tests = 0
    /\ scatters = 0

\* let r = camera.get_ray(u, v); ray_color(&r, &world, max_depth): the first
\* activation, unless get_ray panics
GetRay ==
    /\ pc = "camera"
    /\ \E st \in PathSamples, q \in RandomDraws :
       \E r \in {get_ray(cam, st[1], st[2], IVec(0, 0, 0), q)} :
           IF r = Panicked
           THEN /\ pc' = "panicked"
                /\ stack' = stack
                /\ calls' = calls
           ELSE /\ pc' = "path"
                /\ stack' = <<Frame(r, depth0, None)>>
                /\ calls' = 1
    /\ UNCHANGED <<geomVars, returned, depth0, hit_tests, scatters, renderVars,
                   axes, scatterVars, indexVars, oldVars, cam, trail>>

\* The activation on top of the stack has not yet made its recursive call
Entered ==
    /\ pc = "path"
    /\ stack # <<>>
    /\ ~Top.attenuation.some

\* hit_list(hittables, r, 0.001, INFINITY) of the activation on top
Struck == hit_list(PathScene, Top.r, T_MIN, INFINITY)

\* What an activation adds to the trail
Step(rec, out) == [r |-> Top.r, depth |-> Top.depth, rec |-> rec, out |-> out]

\* if depth <= 0 { return Color::zero(); }
PathBlack ==
    /\ Entered
    /\ BaseCase(Top.depth)
    /\ stack' = Pop
    /\ returned' = Some(Color_zero)
    /\ trail' = Append(trail, Step(None, None))
    /\ UNCHANGED <<pc, geomVars, depth0, calls, hit_tests, scatters, renderVars,
                   axes, scatterVars, indexVars, oldVars, cam>>

\* hit_list returns None: the background gradient is returned
PathMiss ==
    /\ Entered
    /\ ~BaseCase(Top.depth)
    /\ ~Struck.some
    /\ hit_tests' = hit_tests + 1
    /\ stack' = Pop
    /\ returned' = Some(Background(Top.r))
    /\ trail' = Append(trail, Step(None, None))
    /\ UNCHANGED <<pc, geomVars, depth0, calls, scatters, renderVars,
                   axes, scatterVars, indexVars, oldVars, cam>>

\* hit_list returns a record and rec.material.scatter returns (None, _)
PathAbsorbed ==
    /\ Entered
    /\ ~BaseCase(Top.depth)
    /\ \E rec \in {Struck} :
           /\ rec.some
           /\ \E p \in PathDraws, rnd \in RandomDraws :
              \E out \in {Material_scatter(rec.val.material, Top.r, rec.val,
                                           p, rnd)} :
                  /\ ~out[1].some
                  /\ trail' = Append(trail, Step(rec, Some(out)))
    /\ hit_tests' = hit_tests + 1
    /\ scatters' = scatters + 1
    /\ stack' = Pop
    /\ returned' = Some(Color_zero)
    /\ UNCHANGED <<pc, geomVars, depth0, calls, renderVars,
                   axes, scatterVars, indexVars, oldVars, cam>>

\* hit_list returns a record and rec.material.scatter returns
\* (Some(scattered_ray), attenuation): the recursive call
\* ray_color(&scattered_ray, hittables, depth - 1) is made
PathScatter ==
    /\ Entered
    /\ ~BaseCase(Top.depth)
    /\ Len(stack) < MaxStack
    /\ \E rec \in {Struck} :
           /\ rec.some
           /\ \E p \in PathDraws, rnd \in RandomDraws :
              \E out \in {Material_scatter(rec.val.material, Top.r, rec.val,
                                           p, rnd)} :
                  /\ out[1].some
                  /\ trail' = Append(trail, Step(rec, Some(out)))
                  /\ stack' = Append(
                         [stack EXCEPT ![Len(stack)].attenuation = Some(out[2])],
                         Frame(out[1].val, NextDepth(Top.depth), None))
    /\ hit_tests' = hit_tests + 1
    /\ scatters' = scatters + 1
    /\ calls' = calls + 1
    /\ UNCHANGED <<pc, geomVars, returned, depth0, renderVars,
                   axes, scatterVars, indexVars, oldVars, cam>>

\* The recursive call has returned: attenuation * its result is returned
PathReturn ==
    /\ pc = "path"
    /\ stack # <<>>
    /\ Top.attenuation.some
    /\ returned.some
    /\ stack' = Pop
    /\ returned' = Some(VMul(Top.attenuation.val, returned.val))
    /\ UNCHANGED <<pc, geomVars, depth0, calls, hit_tests, scatters, renderVars,
                   axes, scatterVars, indexVars, oldVars, cam, trail>>

NextPath ==
    \/ GetRay
    \/ PathBlack
    \/ PathMiss
    \/ PathAbsorbed
    \/ PathScatter
    \/ PathReturn

SpecPath == InitPath /\ [][NextPath]_vars

(***************************************************************************)
(* Specification of the render: range.into_par_iter().map(..).collect(),   *)
(* then the rows written in order                                          *)
(***************************************************************************)
InitRender ==
    /\ pc = "render"
    /\ world = RenderWorld
    /\ GeomIdle
    /\ TraceIdle
    /\ RenderIdle
    /\ OtherIdle

\* A worker thread takes item k of range
StartRow(k) ==
    /\ pc = "render"
    /\ task[k] = "todo"
    /\ Cardinality({n \in DOMAIN task : task[n] = "running"}) < NumWorkers
    /\ task' = [task EXCEPT ![k] = "running"]
    /\ UNCHANGED <<pc, geomVars, traceVars, otherVars, slots, rows, rendered,
                   finished, written>>

\* The worker of item k finishes the row j = range[k] and hands it to collect
FinishRow(k) ==
    /\ pc = "render"
    /\ task[k] = "running"
    /\ \E q \in RandomDraws :
           LET j == range[k]
               row == RenderRow(j, q)
           IN  /\ slots' = Collected(slots, k, row)
               /\ rendered' =
                      [p \in DOMAIN rendered |->
                          IF p[2] = j THEN Append(rendered[p], row[p[1] + 1])
                          ELSE rendered[p]]
    /\ task' = [task EXCEPT ![k] = "done"]
    /\ finished' = Append(finished, k)
    /\ UNCHANGED <<pc, geomVars, traceVars, otherVars, rows, written>>

\* Every item is done: collect returns the vector
Collect ==
    /\ pc = "render"
    /\ \A k \in DOMAIN task : task[k] = "done"
    /\ rows' = [k \in 1 .. ImageHeight |-> slots[k].val]
    /\ pc' = "collected"
    /\ UNCHANGED <<geomVars, traceVars, otherVars, task, slots, rendered, finished,
                   written>>

\* for row in rows { for color in row { write_color(..) } }
WriteImage ==
    /\ pc = "collected"
    /\ written' = WriteRows(rows, Len(rows))
    /\ pc' = "written"
    /\ UNCHANGED <<geomVars, traceVars, otherVars, task, slots, rows, rendered,
                   finished>>

NextRender ==
    \/ \E k \in 1 .. ImageHeight : StartRow(k)
    \/ \E k \in 1 .. ImageHeight : FinishRow(k)
    \/ Collect
    \/ WriteImage

SpecRender == InitRender /\ [][NextRender]_vars

(***************************************************************************)
(* Properties                                                              *)
(***************************************************************************)
\* The number of primitives of the flat list that the last query hits
NumPrimHits == Cardinality({i \in DOMAIN prim_hits : prim_hits[i].some})

StrictlyInside(t) == FLt(t_min, t) /\ FLt(t, t_max)

CentreOf(h, time) == IF h.kind = "Sphere" THEN h.center ELSE center(h, time)

VEq(u, v) == FEq(u[1], v[1]) /\ FEq(u[2], v[2]) /\ FEq(u[3], v[3])

RootsInRange(i) ==
    LET rs == Roots(CentreOf(world[i], ray.time), world[i].radius, ray)
    IN  IF rs.some
        THEN {rs.val[k] : k \in {k \in 1 .. 2 :
                                    FLe(t_min, rs.val[k]) /\ FLe(rs.val[k], t_max)}}
        ELSE {}

ExactSqrt(x) == x[2] > 0 /\ x[1] > 0 /\ IsSquare(x[1]) /\ IsSquare(x[2])

Cross(u, v) ==
    Vec3(FSub(FMul(u[2], v[3]), FMul(u[3], v[2])),
         FSub(FMul(u[3], v[1]), FMul(u[1], v[3])),
         FSub(FMul(u[1], v[2]), FMul(u[2], v[1])))

\* The ray starts outside Sphere s and points at its centre, and both
\* |origin - centre| and |dir| are rational.
AimedAt(s) ==
    LET to_centre == VSub(s.center, ray.orig)
    IN  /\ s.kind = "Sphere"
        /\ FGt(LengthSquared(to_centre), FMul(s.radius, s.radius))
        /\ VEq(Cross(ray.dir, to_centre), IVec(0, 0, 0))
        /\ FGt(Dot(ray.dir, to_centre), Zero)
        /\ ExactSqrt(LengthSquared(to_centre))
        /\ ExactSqrt(LengthSquared(ray.dir))

Distance(s) == FSqrt(LengthSquared(VSub(s.center, ray.orig)))

\* C7 as claimed: a ray from outside aimed at the centre, with
\* t_min <= distance - radius <= t_max, gives a front-face hit at
\* t = distance - radius.
C7_CentreHitAtDistance ==
    pc = "cast" =>
        \A i \in DOMAIN prim_hits :
            LET gap == FSub(Distance(world[i]), world[i].radius)
            IN  (AimedAt(world[i]) /\ FLe(t_min, gap) /\ FLe(gap, t_max)) =>
                    /\ prim_hits[i].some
                    /\ prim_hits[i].val.front_face
                    /\ FEq(prim_hits[i].val.t, gap)

\* C7 amended: the hit is at t = (distance - radius) / |dir| whenever that
\* parameter lies in [t_min, t_max]; the radius-0.5 sphere at (0,0,-1) hit
\* from the origin along (0,0,-1) gives t = 0.5 and normal (0,0,1).
C7_CentreHitScaled ==
    pc = "cast" =>
        \A i \in DOMAIN prim_hits :
            LET t == FDiv(FSub(Distance(world[i]), world[i].radius),
                          FSqrt(LengthSquared(ray.dir)))
            IN  /\ (AimedAt(world[i]) /\ FLe(t_min, t) /\ FLe(t, t_max)) =>
                       /\ prim_hits[i].some
                       /\ prim_hits[i].val.front_face
                       /\ FEq(prim_hits[i].val.t, t)
                /\ ( /\ world[i] = SmallSphere
                     /\ VEq(ray.orig, IVec(0, 0, 0))
                     /\ VEq(ray.dir, IVec(0, 0, -1))
                     /\ FLe(t_min, Half) /\ FLe(Half, t_max) ) =>
                       /\ prim_hits[i].some
                       /\ FEq(prim_hits[i].val.t, Half)
                       /\ VEq(prim_hits[i].val.normal, IVec(0, 0, 1))

\* C7 witness: a ray that is not of unit length, aimed from outside at the
\* centre of a sphere, which it hits.
C7_Witness ==
    /\ pc = "cast"
    /\ ~FEq(LengthSquared(ray.dir), One)
    /\ \E j \in DOMAIN prim_hits : AimedAt(world[j]) /\ prim_hits[j].some

\* The spec's scenario of C7 is reached: the radius-0.5 sphere at (0,0,-1)
\* hit from the origin along (0,0,-1).
C7_ScenarioReached ==
    /\ pc = "cast"
    /\ \E i \in DOMAIN prim_hits :
           /\ world[i] = SmallSphere
           /\ VEq(ray.orig, IVec(0, 0, 0))
           /\ VEq(ray.dir, IVec(0, 0, -1))
           /\ prim_hits[i].some

\* The permutations of a list
Reorderings(q) ==
    {[i \in DOMAIN q |-> q[f[i]]] :
        f \in {g \in [DOMAIN q -> DOMAIN q] : \A i, j \in DOMAIN q :
                                                 i # j => g[i] # g[j]}}

\* C8: hit_list returns a hit exactly when some primitive hits in
\* [t_min, t_max]; the record it returns is the record of a primitive and
\* its t is the minimum over the primitives that hit; and every permutation
\* of the list gives a hit with the same t.
C8_NearestAnyOrder ==
    pc = "cast" =>
        /\ flat_hit.some <=> NumPrimHits > 0
        /\ flat_hit.some =>
               /\ \E i \in DOMAIN prim_hits : prim_hits[i] = flat_hit
               /\ \A i \in DOMAIN prim_hits :
                      prim_hits[i].some =>
                          FLe(flat_hit.val.t, prim_hits[i].val.t)
        /\ \A w \in Reorderings(world) :
               LET other == hit_list(w, ray, t_min, t_max)
               IN  /\ other.some <=> flat_hit.some
                   /\ other.some => FEq(other.val.t, flat_hit.val.t)

\* C8 witness: the far sphere first in the list, the near sphere fully in
\* front of it along the ray, and the near sphere's record returned.
C8_Witness ==
    /\ pc = "cast"
    /\ world = <<FarSphere, NearSphere>>
    /\ VEq(ray.orig, IVec(0, 0, 0))
    /\ VEq(ray.dir, IVec(0, 0, -1))
    /\ prim_hits[1].some
    /\ prim_hits[2].some
    /\ FLt(prim_hits[2].val.t, prim_hits[1].val.t)
    /\ flat_hit = prim_hits[2]
    /\ flat_hit.val.material = NearSphere.material

\* Point q lies strictly inside box b
StrictlyInBox(q, b) ==
    \A a \in 0 .. 2 :
        FLt(VIndex(b.minimum, a), VIndex(q, a)) /\ FLt(VIndex(q, a), VIndex(b.maximum, a))

Queried == pc \in {"cast", "probed"}

\* C9 as claimed: with t_min = 0.001 and t_max = +infinity the box test is
\* true for every ray whose origin lies strictly inside the box.
C9_InsideAlwaysHits ==
    (Queried /\ t_min = T_MIN /\ t_max = INFINITY
             /\ StrictlyInBox(ray.orig, bvh.val.aabb_box)) => box_hit

\* C9 amended: the box test over [0.001, +infinity] is true for every ray
\* whose origin lies strictly inside the box and whose point at t = 0.001 is
\* still strictly inside it.
C9_InsideHitsIfStillInside ==
    (Queried /\ t_min = T_MIN /\ t_max = INFINITY
             /\ StrictlyInBox(ray.orig, bvh.val.aabb_box)
             /\ StrictlyInBox(at(ray, T_MIN), bvh.val.aabb_box)) => box_hit

\* C9 witness: an origin strictly inside the box, a direction with a zero
\* or negative-zero component, the integrator's interval, and the test true.
C9_Witness ==
    /\ Queried
    /\ t_min = T_MIN
    /\ t_max = INFINITY
    /\ StrictlyInBox(ray.orig, bvh.val.aabb_box)
    /\ StrictlyInBox(at(ray, T_MIN), bvh.val.aabb_box)
    /\ \E a \in 0 .. 2 : VIndex(ray.dir, a) = NegZero
    /\ \E a \in 0 .. 2 : ~IsZero(VIndex(ray.dir, a))
    /\ box_hit

\* [t_min, t_max] narrowed by the slab intervals of axes 0 .. a - 1, each
\* axis clamping the interval the previous axes left
RECURSIVE Narrowed(_, _, _, _, _)
Narrowed(box, r, lo, hi, a) ==
    IF a = 0 THEN <<lo, hi>>
    ELSE LET prev == Narrowed(box, r, lo, hi, a - 1)
             ax   == AABB_axis(box, r, prev[1], prev[2], a - 1)
         IN  <<ax.t_min_p, ax.t_max_p>>

\* C10: the box test is true exactly when [t_min, t_max] narrowed by all
\* three slab intervals is non-empty (upper end strictly above lower end).
C10_CumulativeNarrowing ==
    Queried =>
        LET iv == Narrowed(bvh.val.aabb_box, ray, t_min, t_max, 3)
        IN  box_hit <=> FLt(iv[1], iv[2])

(***************************************************************************)
(* Properties of ray_color (SpecTrace)                                     *)
(***************************************************************************)
\* C2: every activation of ray_color entered with depth <= 0, the outermost
\* one or a nested one, returns black as its only step, and that step calls
\* neither hit_list nor any material's scatter.
C2_DepthExhaustedIsBlack ==
    [][(Running /\ Top.depth <= 0) =>
           /\ stack' = Pop
           /\ returned' = Some(Color(Zero, Zero, Zero))
           /\ hit_tests' = hit_tests
           /\ scatters' = scatters]_vars

\* C2 witness: a trace started with depth 0 has returned black without a
\* single hit test or scatter.
C2_Witness ==
    /\ pc = "trace"
    /\ depth0 = 0
    /\ stack = <<>>
    /\ returned = Some(Color(Zero, Zero, Zero))
    /\ hit_tests = 0
    /\ scatters = 0

\* The activations nest with depth falling by exactly one per level
DepthFallsByOne ==
    \A n \in 2 .. Len(stack) : stack[n].depth = stack[n - 1].depth - 1

\* C3: a trace started with depth d >= 0 never has more than d activations
\* nested inside the outermost one, each activation's depth is exactly one
\* less than its caller's, and every trace, whatever the hits and scatter
\* outcomes, eventually returns.
C3_BoundedRecursion ==
    /\ [](pc = "trace" =>
            /\ DepthFallsByOne
            /\ depth0 >= 0 => Len(stack) <= depth0 + 1
            /\ depth0 >= 0 => calls <= depth0 + 1)
    /\ <>(stack = <<>> /\ returned.some)

\* C3 witness: a trace started with the largest depth has scattered at every
\* level, made exactly depth0 nested calls, and returned.
C3_Witness ==
    /\ pc = "trace"
    /\ depth0 = MaxDepth
    /\ calls = depth0 + 1
    /\ scatters = depth0
    /\ stack = <<>>
    /\ returned.some

(***************************************************************************)
(* Properties of the render driver (SpecRender)                            *)
(***************************************************************************)
\* C4: once collect has returned, whatever order the workers finished in,
\* rows has ImageHeight rows of ImageWidth colours, every pixel (i, j) was
\* computed exactly once, and rows[k][i] (rows[k + 1][i + 1] here) is the
\* colour computed for pixel (i, ImageHeight - 1 - k).
C4_AssembledByPosition ==
    pc \in {"collected", "written"} =>
        /\ Len(rows) = ImageHeight
        /\ \A k \in 0 .. ImageHeight - 1 :
               /\ Len(rows[k + 1]) = ImageWidth
               /\ \A i \in 0 .. ImageWidth - 1 :
                      rendered[<<i, ImageHeight - 1 - k>>] = <<rows[k + 1][i + 1]>>

\* C4 witness: the workers finished in the reverse of the order of range,
\* and collect has returned.
C4_Witness ==
    /\ pc = "collected"
    /\ finished = [n \in 1 .. ImageHeight |-> ImageHeight + 1 - n]
    /\ Len(rows) = ImageHeight


(***************************************************************************)
(* Construction of the tree                                                *)
(***************************************************************************)
\* BVHNode::new has returned or panicked
Attempted == pc \in {"constructed", "hit", "panicked"}

\* The list holds a primitive whose bounding_box returns None
Boxless(w) ==
    \E i \in DOMAIN w : ~Hittable_bounding_box(w[i], Time0, Time1).some

\* C11: BVHNode::new on an empty list, or on a list holding a primitive
\* whose bounding_box returns None, panics: it returns no node, and no tree,
\* partial or whole, is left behind.
C11_MalformedIsFatal ==
    (Attempted /\ (world = <<>> \/ Boxless(world)))
        => (pc = "panicked" /\ bvh = None)

\* C11 witness: BVHNode::new was called on the empty list and panicked.
C11_Witness == pc = "panicked" /\ world = <<>> /\ Len(axes) = 1


\* BVHNode::new has just returned a root
Built == pc = "constructed"

\* The primitives of a subtree
RECURSIVE Leaves(_)
Leaves(h) ==
    IF h.kind = "BVHNode" THEN Leaves(h.left) \cup Leaves(h.right) ELSE {h}

\* The nodes of a subtree
RECURSIVE Nodes(_)
Nodes(h) ==
    IF h.kind = "BVHNode" THEN {h} \cup Nodes(h.left) \cup Nodes(h.right)
    ELSE {}

\* The nodes new_helper built, each with the range [start, end) of the list
\* it was built from and the axis it drew; k values were drawn before it
RECURSIVE RangeNodes(_, _, _, _)
RangeNodes(n, start, end, k) ==
    LET mid  == start + ((end - start) \div 2)
        here == {[node |-> n, start |-> start, end |-> end,
                  axis |-> axes[k + 1]]}
    IN  IF end - start <= 2 THEN here
        ELSE here \cup RangeNodes(n.left, start, mid, k + 1)
                  \cup RangeNodes(n.right, mid, end, k + 1 + Draws(mid - start))

BuiltNodes == RangeNodes(bvh.val, 0, Len(world), 0)

\* What box_compare compares: the minimum of bounding_box(0.0, 0.0) on axis
MinOn(h, axis) ==
    VIndex(Hittable_bounding_box(h, Zero, Zero).val.minimum, axis)

BoxOf(h) == Hittable_bounding_box(h, Time0, Time1).val

\* inner lies within outer
Contains(outer, inner) ==
    \A a \in 1 .. 3 :
        /\ FLe(outer.minimum[a], inner.minimum[a])
        /\ FLe(inner.maximum[a], outer.maximum[a])

\* BVHNode::hit of node n over [lo, hi] for the last ray, whose result was
\* got: got is the right child's result over the tightened interval if there
\* is one, else the left child's, and its t is never beyond the left
\* child's.  The same is then required of the children that are nodes.
RECURSIVE TraversalAt(_, _, _, _)
TraversalAt(n, lo, hi, got) ==
    IF n.kind # "BVHNode" THEN TRUE
    ELSE IF ~AABB_hit(n.aabb_box, ray, lo, hi) THEN got = None
    ELSE LET hit_left  == Hittable_hit(n.left, ray, lo, hi)
             right_hi  == IF hit_left.some THEN hit_left.val.t ELSE hi
             hit_right == Hittable_hit(n.right, ray, lo, right_hi)
         IN  /\ got = IF hit_right.some THEN hit_right ELSE hit_left
             /\ (hit_left.some /\ got.some) => FLe(got.val.t, hit_left.val.t)
             /\ hit_left.some => got.some
             /\ TraversalAt(n.left, lo, hi, hit_left)
             /\ TraversalAt(n.right, lo, right_hi, hit_right)

\* C15: after the box test passes, the left child is probed over
\* [t_min, t_max], the right child over [t_min, t_left] if the left hit at
\* t_left and over [t_min, t_max] otherwise; the right result is returned if
\* present, else the left, else none; so the returned t is never greater
\* than t_left.  Stated of the root and of every node below it.
C15_TraversalOrder ==
    pc = "hit" => TraversalAt(bvh.val, t_min, t_max, bvh_hit)

\* C15 witness: the left child hit, the right child has a hit farther along
\* the ray, and the left hit was returned.
C15_Witness ==
    /\ pc = "hit"
    /\ box_hit
    /\ Hittable_hit(bvh.val.left, ray, t_min, t_max).some
    /\ Hittable_hit(bvh.val.right, ray, t_min, t_max).some
    /\ FLt(Hittable_hit(bvh.val.left, ray, t_min, t_max).val.t,
           Hittable_hit(bvh.val.right, ray, t_min, t_max).val.t)
    /\ bvh_hit = Hittable_hit(bvh.val.left, ray, t_min, t_max)

\* C16: every node built has aabb_box = surrounding_box of its children's
\* bounding_box(time0, time1), and so contains the bounding box of every
\* primitive of its subtree.
C16_BoxIsUnionOfChildren ==
    Built =>
        \A n \in Nodes(bvh.val) :
            /\ n.aabb_box = surrounding_box(BoxOf(n.left), BoxOf(n.right))
            /\ \A h \in Leaves(n) : Contains(n.aabb_box, BoxOf(h))

\* C16 witness: a tree with a node below the root, over a list holding the
\* moving sphere.
C16_Witness ==
    /\ pc = "constructed"
    /\ Len(world) = 3
    /\ Mover \in Range(world)
    /\ bvh.val.right.kind = "BVHNode"
    /\ bvh.val.aabb_box # bvh.val.right.aabb_box

\* C17: a node built from more than 2 primitives has every primitive of its
\* left half at or below every primitive of its right half, by bounding-box
\* minimum on the node's axis.
C17_SortedBeforeSplit ==
    Built =>
        \A e \in BuiltNodes :
            e.end - e.start > 2 =>
                \A a \in Leaves(e.node.left), b \in Leaves(e.node.right) :
                    FLe(MinOn(a, e.axis), MinOn(b, e.axis))

\* C17, what the code does: the halves are the halves of the list as given
C17_SplitInListOrder ==
    Built =>
        \A e \in BuiltNodes :
            LET mid == e.start + ((e.end - e.start) \div 2)
            IN  e.end - e.start > 2 =>
                    /\ Leaves(e.node.left) =
                           {world[i] : i \in e.start + 1 .. mid}
                    /\ Leaves(e.node.right) =
                           {world[i] : i \in mid + 1 .. e.end}

\* C17 scenario: a list of three whose first primitive lies above a later
\* one on the root's axis.
C17_Witness ==
    /\ pc = "constructed"
    /\ Len(world) = 3
    /\ FGt(MinOn(world[1], axes[1]), MinOn(world[3], axes[1]))

\* C18: a node built from exactly 2 primitives holds those two primitives
\* themselves, the one with the greater or equal bounding-box minimum on the
\* node's axis as the left child and the other as the right child.
C18_PairGreaterFirst ==
    Built =>
        \A e \in BuiltNodes :
            e.end - e.start = 2 =>
                /\ {e.node.left, e.node.right} =
                       {world[e.start + 1], world[e.start + 2]}
                /\ e.node.left.kind # "BVHNode"
                /\ e.node.right.kind # "BVHNode"
                /\ FLe(MinOn(e.node.right, e.axis), MinOn(e.node.left, e.axis))

\* C18 witness: a list of two whose second primitive is strictly greater on
\* the axis drawn and was stored as the left child.
C18_Witness ==
    /\ pc = "constructed"
    /\ Len(world) = 2
    /\ bvh.val.left = world[2]
    /\ bvh.val.right = world[1]
    /\ FLt(MinOn(world[1], axes[1]), MinOn(world[2], axes[1]))

\* The node built from one primitive: both children are that primitive and
\* the box is its bounding box
Degenerate ==
    /\ bvh.val.left = world[1]
    /\ bvh.val.right = world[1]
    /\ bvh.val.aabb_box = BoxOf(world[1])

C20_AxisIndependent ==
    pc = "hit" =>
        \A tree \in Trees[world] :
            LET other == Hittable_hit(tree, ray, t_min, t_max)
            IN  /\ other.some = bvh_hit.some
                /\ other.some => FEq(other.val.t, bvh_hit.val.t)

\* C20 witness: another draw of the axes gives a different tree, and the
\* query hits two primitives at different t.
C20_Witness ==
    /\ pc = "hit"
    /\ \E tree \in Trees[world] : tree # bvh.val
    /\ bvh_hit.some
    /\ \E i, j \in DOMAIN prim_hits :
           /\ prim_hits[i].some
           /\ prim_hits[j].some
           /\ FLt(prim_hits[i].val.t, prim_hits[j].val.t)

(***************************************************************************)
(* Scattering                                                              *)
(***************************************************************************)
\* The last scatter call was made on a Dialectric beyond the critical angle
TotalInternal ==
    /\ pc = "scattered"
    /\ sc_material.kind = "Dialectric"
    /\ cannot_refract(sc_material, sc_ray, sc_rec.val)

\* C12: whenever refraction_ratio * sin_theta > 1, Dialectric::scatter
\* returns a scattered ray whose direction is reflect(unit(ray.dir), normal),
\* for every value of the random draw.
C12_TotalInternalReflection ==
    TotalInternal =>
        /\ sc_out[1].some
        /\ VEq(sc_out[1].val.dir,
               reflect(unit_vector(sc_ray.dir), sc_rec.val.normal))

\* C12, the part the code keeps: beyond the critical angle the scattered ray
\* is the same for every value of the random draw
C12_Deterministic ==
    TotalInternal =>
        \A rnd \in RandomDraws :
            Dialectric_scatter(sc_material, sc_ray, sc_rec.val, rnd) = sc_out

\* C12 scenario: a ray inside the glass sphere beyond the critical angle
C12_Witness ==
    /\ TotalInternal
    /\ ~sc_rec.val.front_face
    /\ sc_material.index_of_refraction = <<3, 2>>

\* Every component of c lies in [0, 1]
InUnitCube(c) ==
    \A a \in 1 .. 3 : FLe(Zero, c[a]) /\ FLe(c[a], One)

\* C13: Lambertian::scatter and Metal::scatter return the material's albedo
\* as the attenuation in every outcome, Metal with the ray accepted and with
\* the ray absorbed; so with albedo components in [0, 1] no component of the
\* attenuation exceeds 1.
C13_AttenuationIsAlbedo ==
    (pc = "scattered" /\ sc_material.kind \in {"Lambertian", "Metal"}) =>
        /\ sc_out[2] = sc_material.albedo
        /\ InUnitCube(sc_material.albedo) =>
               \A a \in 1 .. 3 : ~FGt(sc_out[2][a], One)

\* C13 witness: a Metal absorbed the ray and still returned its albedo,
\* which has a component equal to 1.
C13_Witness ==
    /\ pc = "scattered"
    /\ sc_material.kind = "Metal"
    /\ ~sc_out[1].some
    /\ InUnitCube(sc_material.albedo)
    /\ \E a \in 1 .. 3 : FEq(sc_out[2][a], One)


(***************************************************************************)
(* Vec3 indexing                                                           *)
(***************************************************************************)
\* Indexing (read or write) panicked in the named implementation
Fatal(impl) == ix_out[impl] = Panicked

\* C14: indexing a Vec3, read or write, with an index other than 0, 1 or 2
\* panics in the scalar and in the SIMD implementation; indices 0, 1, 2 read
\* x, y, z.
C14_OutOfRangeIsFatal ==
    (pc \in {"read", "stored"}) =>
        /\ ix_index \notin 0 .. 2 => (Fatal("scalar") /\ Fatal("simd"))
        /\ (pc = "read" /\ ix_index \in 0 .. 2) =>
               /\ ix_out.scalar = ix_vec.scalar[ix_index + 1]
               /\ ix_out.simd = ix_vec.scalar[ix_index + 1]

\* C14, what the code does: the scalar Vec3 panics on every index but 0, 1,
\* 2; the SIMD Vec3 panics from index 4 on, and at index 3 reads or writes
\* the fourth lane of val
C14_FatalFromLaneCount ==
    (pc \in {"read", "stored"}) =>
        /\ Fatal("scalar") <=> ix_index \notin 0 .. 2
        /\ Fatal("simd") <=> ix_index \notin 0 .. 3
        /\ (pc = "read" /\ ix_index = 3) => ix_out.simd = Zero
        /\ (pc = "read" /\ ix_index \in 0 .. 2) =>
               /\ ix_out.scalar = ix_vec.scalar[ix_index + 1]
               /\ ix_out.simd = ix_vec.scalar[ix_index + 1]

\* C14 scenario: index 3 was read and the SIMD Vec3 returned a value
C14_Witness == pc = "read" /\ ix_index = 3 /\ Fatal("scalar") /\ ~Fatal("simd")


(***************************************************************************)
(* Properties of one path                                                  *)
(***************************************************************************)
\* Component-wise product of two colours
Product(c, e) == <<FMul(c[1], e[1]), FMul(c[2], e[2]), FMul(c[3], e[3])>>

\* The sky gradient of a direction: white blended towards (0.5, 0.7, 1.0)
\* by t = 0.5 * (y of the unit direction + 1)
Sky(d) ==
    LET y == FDiv(d[2], FSqrt(LengthSquared(d)))
        t == FMul(Half, FAdd(y, One))
    IN  <<FAdd(FMul(FSub(One, t), One), FMul(t, Half)),
          FAdd(FMul(FSub(One, t), One), FMul(t, <<7, 10>>)),
          FAdd(FMul(FSub(One, t), One), FMul(t, One))>>

\* Activation k was given the ray activation k - 1 scattered, one level down
Chained(k) ==
    /\ trail[k - 1].out.some
    /\ trail[k - 1].out.val[1].some
    /\ trail[k].r = trail[k - 1].out.val[1].val
    /\ trail[k].depth = trail[k - 1].depth - 1

\* The colour the composition rule gives activation k of the trail
RECURSIVE Composed(_)
Composed(k) ==
    LET e == trail[k]
    IN  IF e.depth <= 0 THEN <<Zero, Zero, Zero>>
        ELSE IF ~e.rec.some THEN Sky(e.r.dir)
        ELSE IF ~e.out.val[1].some THEN <<Zero, Zero, Zero>>
        ELSE Product(e.out.val[2], Composed(k + 1))

\* The product of the attenuations of the first k activations
RECURSIVE Attenuations(_)
Attenuations(k) ==
    IF k = 0 THEN <<One, One, One>>
    ELSE Product(Attenuations(k - 1), trail[k].out.val[2])

\* What the path ends in: the sky colour at its first miss, or black
Ending ==
    LET e == trail[Len(trail)]
    IN  IF e.depth > 0 /\ ~e.rec.some THEN Sky(e.r.dir)
        ELSE <<Zero, Zero, Zero>>

\* ray_color has returned to its caller in main
Returned == pc = "path" /\ stack = <<>> /\ returned.some

\* C21: every activation after the first was given the scattered ray of the
\* one before and its depth less one; the colour an activation returns is
\* black at depth <= 0, the sky gradient on a miss, black when the material
\* absorbs, and attenuation times the colour of the recursive call
\* otherwise; so the colour of the whole path is the product of its
\* attenuations times the sky colour at its first miss, or black.
C21_Composition ==
    pc = "path" =>
        /\ \A k \in 2 .. Len(trail) : Chained(k)
        /\ returned.some => returned.val = Composed(Len(stack) + 1)
        /\ Returned =>
               returned.val = Product(Attenuations(Len(trail) - 1), Ending)

\* C21 witness: a path has returned a colour that is neither black nor the
\* sky colour of its last ray: an attenuation other than (1, 1, 1) was
\* multiplied in.
C21_Witness ==
    /\ Returned
    /\ Len(trail) >= 2
    /\ Ending # <<Zero, Zero, Zero>>
    /\ returned.val # Ending
    /\ returned.val = Product(trail[1].out.val[2], Ending)


\* The roots of primitive i of the scene for the ray of activation k
RootsOf(i, k) == Roots(world[i].center, world[i].radius, trail[k].r)

\* Activation k was given a ray that starts on primitive i: the primitive
\* is met at a parameter in [0, 0.001)
StartsOn(i, k) ==
    /\ RootsOf(i, k).some
    /\ \E n \in 1 .. 2 : /\ FLe(Zero, RootsOf(i, k).val[n])
                         /\ FLt(RootsOf(i, k).val[n], <<1, 1000>>)

\* C22: no record ray_color uses has t < 0.001, and the hit of a scattered
\* ray is never at the point the ray starts from.
C22_ShadowAcneGuard ==
    pc = "path" =>
        \A k \in DOMAIN trail :
            trail[k].rec.some =>
                /\ ~FLt(trail[k].rec.val.t, <<1, 1000>>)
                /\ k > 1 => ~VEq(trail[k].rec.val.p, trail[k].r.orig)

\* C22 witness: a scattered ray starts on the glass ball, which it meets
\* again at t = 0, and the hit used for it is the far side of the ball.
C22_Witness ==
    /\ pc = "path"
    /\ Len(trail) >= 2
    /\ StartsOn(1, 2)
    /\ trail[2].rec.some
    /\ FEq(trail[2].rec.val.t, RootsOf(1, 2).val[2])
    /\ FLe(<<1, 1000>>, trail[2].rec.val.t)


(***************************************************************************)
(* Properties of the moving sphere's box                                   *)
(***************************************************************************)
\* The box of a sphere of radius r about c
RadiusBox(c, r) == AABB(VSub(c, Vec3(r, r, r)), VAdd(c, Vec3(r, r, r)))

\* Instants of the shutter interval [Time0, Time1]
ShutterTimes == {Zero, <<1, 4>>, Half, <<3, 4>>, One}

Movers == {i \in DOMAIN world : world[i].kind = "MovingSphere"}

\* The box of every moving sphere is the union of its radius box at time0
\* and at time1, and holds its radius box at every instant between
MovingBoxesEnclose ==
    \A i \in Movers :
        LET s == world[i]
            b == MovingSphere_bounding_box(s, Time0, Time1).val
        IN  /\ b = surrounding_box(RadiusBox(center(s, Time0), s.radius),
                                   RadiusBox(center(s, Time1), s.radius))
            /\ \A time \in ShutterTimes \cup {ray.time} :
                   Contains(b, RadiusBox(center(s, time), s.radius))

\* C23 as stated: the box is the union of the two radius boxes and holds
\* the sphere at every instant of [time0, time1], and whenever a moving
\* sphere is hit over [t_min, t_max] by a ray of such a time, the tree
\* built for [time0, time1] reports a hit at least as near.
C23_MovingNeverPruned ==
    pc = "cast" =>
        /\ MovingBoxesEnclose
        /\ \A i \in Movers :
               prim_hits[i].some =>
                   /\ bvh_hit.some
                   /\ FLe(bvh_hit.val.t, prim_hits[i].val.t)

\* C23, amended: the same for the hits strictly inside (t_min, t_max).
C23_MovingNeverPrunedInside ==
    pc = "cast" =>
        /\ MovingBoxesEnclose
        /\ \A i \in Movers :
               (prim_hits[i].some /\ StrictlyInside(prim_hits[i].val.t)) =>
                   /\ bvh_hit.some
                   /\ FLe(bvh_hit.val.t, prim_hits[i].val.t)

\* C23 witness: a ray of time 1/2 hits the moving sphere where it is at
\* that instant, which is neither end of its motion, and the tree returns
\* that hit.
C23_Witness ==
    /\ pc = "cast"
    /\ ray.time = Half
    /\ \E i \in Movers :
           /\ prim_hits[i].some
           /\ StrictlyInside(prim_hits[i].val.t)
           /\ bvh_hit = prim_hits[i]
           /\ center(world[i], ray.time) # center(world[i], Time0)
           /\ center(world[i], ray.time) # center(world[i], Time1)


\* Every ray of the path so far: those ray_color was given and those
\* scatter returned
PathRays ==
    {stack[k].r : k \in DOMAIN stack} \cup {trail[k].r : k \in DOMAIN trail}
    \cup {trail[k].out.val[1].val :
             k \in {n \in DOMAIN trail : /\ trail[n].out.some
                                         /\ trail[n].out.val[1].some}}

\* The ray get_ray returned
CameraRay == IF trail # <<>> THEN trail[1].r ELSE stack[1].r

\* C24 as stated: get_ray returns a ray for every camera, its time lies in
\* [time0, time1], and every ray of the path has that time.
C24_EveryCameraInShutter ==
    pc # "camera" =>
        /\ pc = "path"
        /\ FLe(cam.time0, CameraRay.time)
        /\ FLe(CameraRay.time, cam.time1)
        /\ \A r \in PathRays : r.time = CameraRay.time

\* What holds of the code: get_ray panics exactly when time0 < time1 does
\* not hold; otherwise the ray's time lies in [time0, time1) and every ray
\* of the path has that time.
C24_OpenShutterInShutter ==
    /\ pc = "panicked" => ~FLt(cam.time0, cam.time1)
    /\ pc = "path" =>
           /\ FLt(cam.time0, cam.time1)
           /\ FLe(cam.time0, CameraRay.time)
           /\ FLt(CameraRay.time, cam.time1)
           /\ \A r \in PathRays : r.time = CameraRay.time

\* C24 witness: get_ray was called on the camera whose shutter interval is
\* the single instant 0.5, and panicked.
C24_Witness ==
    /\ pc = "panicked"
    /\ cam.time0 = Half
    /\ cam.time1 = Half
    /\ stack = <<>>


(***************************************************************************)
(* Properties of surrounding_box                                           *)
(***************************************************************************)
\* Two boxes with equal corners (== of f32, component by component)
SameBox(b, c) == VEq(b.minimum, c.minimum) /\ VEq(b.maximum, c.maximum)

\* The smaller and the larger of two f32 values
Least(x, y) == IF FLe(x, y) THEN x ELSE y

Greatest(x, y) == IF FLe(x, y) THEN y ELSE x

\* The boxes BVHNode::new asks the primitives of the list for
InputBoxes == {BoxOf(world[i]) : i \in DOMAIN world}

\* C25: over the boxes of the primitives given to BVHNode::new,
\* surrounding_box is commutative and associative, its corners are the
\* component-wise min of the minimums and max of the maximums, and it
\* contains both boxes.
C25_SurroundingBoxAlgebra ==
    Built =>
        \A a \in InputBoxes, b \in InputBoxes :
            /\ SameBox(surrounding_box(a, b), surrounding_box(b, a))
            /\ \A n \in 1 .. 3 :
                   /\ FEq(surrounding_box(a, b).minimum[n],
                          Least(a.minimum[n], b.minimum[n]))
                   /\ FEq(surrounding_box(a, b).maximum[n],
                          Greatest(a.maximum[n], b.maximum[n]))
            /\ Contains(surrounding_box(a, b), a)
            /\ Contains(surrounding_box(a, b), b)
            /\ \A c \in InputBoxes :
                   SameBox(surrounding_box(surrounding_box(a, b), c),
                           surrounding_box(a, surrounding_box(b, c)))

\* C25 witness: a tree over three primitives whose boxes are such that no
\* union of two of them is the union of all three, which is the root's box.
C25_Witness ==
    /\ pc = "constructed"
    /\ Len(world) = 3
    /\ \A a \in InputBoxes, b \in InputBoxes :
           ~SameBox(surrounding_box(a, b), bvh.val.aabb_box)
    /\ SameBox(bvh.val.aabb_box,
               surrounding_box(surrounding_box(BoxOf(world[1]), BoxOf(world[2])),
                               BoxOf(world[3])))


(***************************************************************************)
(* Properties of the shape of the tree                                     *)
(***************************************************************************)
\* The primitives at the leaf positions of a subtree, left to right
RECURSIVE LeafList(_)
LeafList(h) ==
    IF h.kind = "BVHNode" THEN LeafList(h.left) \o LeafList(h.right)
    ELSE <<h>>

\* The number of places of the list q that hold x
Count(q, x) == Cardinality({i \in DOMAIN q : q[i] = x})

\* The primitives that were alone in the range a node was built from
Singles == {world[e.start + 1] : e \in {d \in BuiltNodes : d.end - d.start = 1}}

\* C26 as stated: a list of one primitive gives a root with that primitive
\* as both children; a longer list gives a tree whose leaf positions hold
\* the primitives of the list, each as often as the list does.
C26_LeavesAreTheList ==
    Built =>
        IF Len(world) = 1
        THEN bvh.val.left = world[1] /\ bvh.val.right = world[1]
        ELSE \A x \in Range(world) \cup Range(LeafList(bvh.val)) :
                 Count(LeafList(bvh.val), x) = Count(world, x)

\* C26, amended: the leaf positions hold the primitives of the list and no
\* other; a primitive is at two leaf positions, the two children of one
\* node, if it was alone in the range that node was built from, and at one
\* leaf position otherwise.
C26_LeavesCoverTheList ==
    Built =>
        /\ Range(LeafList(bvh.val)) = Range(world)
        /\ \A x \in Range(world) :
               Count(LeafList(bvh.val), x) = IF x \in Singles THEN 2 ELSE 1
        /\ \A n \in Nodes(bvh.val) :
               (n.left = n.right) <=> (n.left \in Singles)

\* C26 witness: a tree over three primitives; the first was alone in the
\* left half and is both children of the root's left child.
C26_Witness ==
    /\ pc = "constructed"
    /\ Len(world) = 3
    /\ bvh.val.left.kind = "BVHNode"
    /\ bvh.val.left.left = world[1]
    /\ bvh.val.left.right = world[1]
    /\ Len(LeafList(bvh.val)) = 4


\* The longest chain of children from h down to a primitive
RECURSIVE Height(_)
Height(h) ==
    IF h.kind = "BVHNode"
    THEN 1 + (IF Height(h.left) >= Height(h.right) THEN Height(h.left)
              ELSE Height(h.right))
    ELSE 0

\* ceil(log2 n), n >= 1
RECURSIVE CeilLog2(_)
CeilLog2(n) == IF n <= 1 THEN 0 ELSE 1 + CeilLog2((n + 1) \div 2)

\* The longest range the split rule is followed on
MaxRange == 16

\* The calls of new_helper nested below a call on a range of n primitives:
\* none in the 1 and 2 arms, the deeper of the two halves and one more
\* otherwise
RECURSIVE Nested(_)
Nested(n) ==
    IF n <= 2 THEN 0
    ELSE 1 + (IF Nested(n \div 2) >= Nested(n - (n \div 2))
              THEN Nested(n \div 2) ELSE Nested(n - (n \div 2)))

\* The primitives of the range [start, end) of the list
Slice(start, end) == {world[i + 1] : i \in start .. end - 1}

\* C27: BVHNode::new on a non-empty list returns: the panic of the 0 arm
\* is reached for the empty list only; every call of new_helper has a
\* range of at least one primitive; a call on n > 2 primitives gives its
\* left call the first floor(n/2) of them and its right call the other
\* ceil(n/2), both fewer than n; and the calls nest at most ceil(log2 n)
\* deep, which bounds the depth of the nodes of the tree.
C27_ConstructionTerminates ==
    /\ (pc = "panicked") => (world = <<>>)
    /\ (pc \in {"constructed", "hit"}) => (Len(world) >= 1 /\ bvh.some)
    /\ Built =>
          /\ \A e \in BuiltNodes :
                LET n == e.end - e.start
                    mid == e.start + (n \div 2)
                IN  /\ n >= 1
                    /\ Leaves(e.node) = Slice(e.start, e.end)
                    /\ (n <= 2) <=> (e.node.left.kind # "BVHNode")
                    /\ (n <= 2) <=> (e.node.right.kind # "BVHNode")
                    /\ (n > 2) =>
                          /\ Leaves(e.node.left) = Slice(e.start, mid)
                          /\ Leaves(e.node.right) = Slice(mid, e.end)
                          /\ Cardinality(Leaves(e.node.left)) = n \div 2
                          /\ Cardinality(Leaves(e.node.right)) = n - (n \div 2)
                          /\ n \div 2 >= 1 /\ n - (n \div 2) < n
          /\ Height(bvh.val) - 1 = Nested(Len(world))
          /\ Height(bvh.val) - 1 <= CeilLog2(Len(world))
          /\ (Len(world) >= 2) => (Height(bvh.val) = CeilLog2(Len(world)))
    /\ \A n \in 1 .. MaxRange :
          /\ Nested(n) <= CeilLog2(n)
          /\ (n > 2) => (n \div 2 >= 1 /\ n - (n \div 2) < n
                         /\ n - (n \div 2) = (n + 1) \div 2)

\* C27 witness: the call on three primitives has returned; it made a call
\* on the first primitive and a call on the other two
C27_Witness ==
    /\ pc = "constructed"
    /\ Len(world) = 3
    /\ \E e \in BuiltNodes : e.start = 0 /\ e.end = 1
    /\ \E e \in BuiltNodes : e.start = 1 /\ e.end = 3
    /\ Height(bvh.val) = 2


(***************************************************************************)
(* Bounds on the colour of a path                                          *)
(***************************************************************************)
\* Every component of c lies in [0, 1]
InUnit(c) == \A i \in 1 .. 3 : FLe(Zero, c[i]) /\ FLe(c[i], One)

\* Every Lambertian and Metal albedo component of the scene lies in [0, 1]
AlbedosInUnit ==
    \A i \in DOMAIN world :
        world[i].material.kind \in {"Lambertian", "Metal"} =>
            InUnit(world[i].material.albedo)

\* C28 as stated: with the albedos in [0, 1], every colour ray_color
\* returns has its components in [0, 1], whatever the ray and the depth.
C28_RadianceInUnit ==
    (pc = "path" /\ AlbedosInUnit /\ returned.some) => InUnit(returned.val)


\* Vec3::length of the ray's direction is finite and not zero, so that
\* unit_vector divides by a number
Proper(r) ==
    /\ ~IsNaN(length(r.dir))
    /\ ~IsInf(length(r.dir))
    /\ ~IsZero(length(r.dir))

\* Activation k found no hit: it returned the background of its ray
Missed(k) == trail[k].depth > 0 /\ ~trail[k].rec.some

\* Activation k made the recursive call
Scattered(k) == trail[k].out.some /\ trail[k].out.val[1].some

\* C28, amended: with the albedos in [0, 1], every attenuation has its
\* components in [0, 1], that of the dielectric being (1, 1, 1); the
\* background of a ray whose direction has a finite non-zero length has
\* its components in [0.5, 1]; and every colour ray_color returns has its
\* components in [0, 1] unless the path ended in the background of a ray
\* whose direction has no such length, and then every component is NaN.
C28_RadianceInUnitOnProperRays ==
    (pc = "path" /\ AlbedosInUnit) =>
        /\ \A k \in DOMAIN trail :
              Scattered(k) =>
                  /\ InUnit(trail[k].out.val[2])
                  /\ (trail[k].rec.val.material.kind = "Dialectric") =>
                         (trail[k].out.val[2] = <<One, One, One>>)
        /\ \A k \in DOMAIN trail :
              (Missed(k) /\ Proper(trail[k].r)) =>
                  \A i \in 1 .. 3 :
                      /\ FLe(Half, Background(trail[k].r)[i])
                      /\ FLe(Background(trail[k].r)[i], One)
        /\ returned.some =>
              IF \A k \in DOMAIN trail : Missed(k) => Proper(trail[k].r)
              THEN InUnit(returned.val)
              ELSE returned.val = <<NaN, NaN, NaN>>

\* C28 witness: a path through the mirror (albedo (0.7, 0.6, 0.5)) that
\* ended in the sky has returned a colour that is neither black nor the sky
\* colour, each component in [0, 1]
C28_Witness ==
    /\ Returned
    /\ Len(trail) >= 2
    /\ Scattered(1)
    /\ trail[1].rec.val.material.kind = "Metal"
    /\ Missed(Len(trail))
    /\ Proper(trail[Len(trail)].r)
    /\ returned.val # Ending
    /\ InUnit(returned.val)


(***************************************************************************)
(* Properties of the builder of src/src/hit.rs                             *)
(***************************************************************************)
\* main called BVHNode::new(&world, 0, world.len(), 0.0, 1.0) on a list
\* that is not empty
OldOnWholeList ==
    /\ old.state # "idle"
    /\ world # <<>>
    /\ old.call = <<0, Len(world)>>

\* C29 as stated: called on a whole non-empty list, the builder of hit.rs
\* neither panics nor exhausts the stack, and the node it returns is the
\* root the builder of bvh_node.rs returned for the same axis draws.
C29_BuildersAgree ==
    OldOnWholeList =>
        /\ old.state \in {"entered", "returned"}
        /\ old.state = "returned" => old.node = bvh

\* What the builder of hit.rs does on a whole non-empty list: it never
\* returns.  With overflow checks it panics in its first activation; without
\* them every activation has the start, the end and the number of
\* primitives of the first, num_objects is 2^w - len, and the _ arm makes
\* the next call.  On any call, an activation below the first has the
\* start and the end of its caller and takes the _ arm.
C29_OldNeverReturns ==
    /\ \A k \in 2 .. Len(old.stack) :
           /\ old.stack[k].start = old.stack[k - 1].start
           /\ old.stack[k].end = old.stack[k - 1].end
           /\ old_num_objects(old.stack[k].start, old.stack[k].end) > 2
    /\ OldOnWholeList =>
        /\ bvh.some
        /\ old.state # "returned"
        /\ old.build = "checked" =>
               (old.state = "panicked" \/ Len(old.stack) = 1)
        /\ old.state = "overflowed" => old.build = "wrapping"
        /\ \A k \in DOMAIN old.stack :
               /\ old.stack[k].start = 0
               /\ old.stack[k].end = Len(world)
               /\ Len(old.stack[k].src_objects) = Len(world)
               /\ Range(old.stack[k].src_objects) = Range(world)
               /\ old_num_objects(0, Len(world)) = (2 ^ UsizeBits) - Len(world)

\* C29 witness: for a list of three primitives the builder of bvh_node.rs
\* has returned a root, and the builder of hit.rs, built without overflow
\* checks, has used up the stack
C29_Witness ==
    /\ pc = "constructed"
    /\ Len(world) = 3
    /\ old.call = <<0, 3>>
    /\ old.build = "wrapping"
    /\ old.state = "overflowed"
    /\ Len(old.stack) = MaxFrames


(***************************************************************************)
(* Properties of the comparator                                            *)
(***************************************************************************)
\* C30 as stated: for every two primitives of the list, one taken twice
\* included, and every axis, box_compare(a, b) is Less exactly if
\* box_compare(b, a) is Greater, and the two are never both Greater.
C30_ConsistentOrdering ==
    \A a \in Range(world), b \in Range(world), axis \in 0 .. 2 :
        /\ (box_compare(a, b, axis) = "Less")
               <=> (box_compare(b, a, axis) = "Greater")
        /\ ~ /\ box_compare(a, b, axis) = "Greater"
             /\ box_compare(b, a, axis) = "Greater"

\* What box_compare does: Less if a's minimum on the axis is below b's,
\* Greater otherwise, and no third value.  So Less one way gives Greater
\* the other way, and equal minimums give Greater both ways.  The builder
\* leaves the list as it is: every list is compared as the builder is called.
C30_LessBelowGreaterOtherwise ==
    (pc = "new") =>
    \A a \in Range(world), b \in Range(world), axis \in 0 .. 2 :
        /\ box_compare(a, b, axis) =
               IF FLt(MinOn(a, axis), MinOn(b, axis)) THEN "Less" ELSE "Greater"
        /\ (box_compare(a, b, axis) = "Less")
               => (box_compare(b, a, axis) = "Greater")
        /\ (MinOn(a, axis) = MinOn(b, axis)) =>
               /\ box_compare(a, b, axis) = "Greater"
               /\ box_compare(b, a, axis) = "Greater"

\* C30 witness: the 2 arm has compared two primitives with the same minimum
\* on the axis drawn; the answer was Greater, it is Greater the other way
\* round too, and the children are in the order of the list
C30_Witness ==
    /\ pc = "constructed"
    /\ Len(world) = 2
    /\ world[1] # world[2]
    /\ MinOn(world[1], axes[1]) = MinOn(world[2], axes[1])
    /\ box_compare(world[1], world[2], axes[1]) = "Greater"
    /\ box_compare(world[2], world[1], axes[1]) = "Greater"
    /\ bvh.val.left = world[1]
    /\ bvh.val.right = world[2]

=============================================================================
